---------------------------- MODULE Spec2Model ----------------------------
(***************************************************************************)
(* CDG (CD+Graphics) decode / render / playback-clock pipeline of          *)
(* disklavier-karaoke: parseCdgFile + parseInstruction (decoder),          *)
(* CdgRenderer (raster state machine) and CdgPlayer (playback clock).      *)
(*                                                                         *)
(* Time.  The code computes times as JavaScript numbers in milliseconds;   *)
(* a packet's time is (i / 300) * 1000 ms, a multiple of 10/3 ms.  The     *)
(* model keeps every time as an integer number of thirds of a millisecond  *)
(* (Ms(n) is n milliseconds), which represents all those values exactly.   *)
(*                                                                         *)
(* Geometry.  The frame buffer of the code is 50 x 18 tiles of 6 x 12      *)
(* pixels.  The tile size, border and bit masks are the code's; the number *)
(* of tiles across and down (TilesAcross, TilesDown) is a bound of the     *)
(* model.                                                                  *)
(***************************************************************************)
EXTENDS Integers, Sequences, FiniteSets, TLC

\* ------------------------------------------------------------------ bounds
\* Tiles across the frame buffer (50 in the code: CDG_WIDTH = 300).
TilesAcross == 3
\* Tiles down the frame buffer (18 in the code: CDG_HEIGHT = 216).
TilesDown == 3
\* The wall clock (Date.now()) is advanced at most this many steps.
MaxClockSteps == 2
\* A renderer driven directly gets at most this many instructions between resets.
MaxInstructions == 3

\* --------------------------------------------------------- CDG constants
CDG_TILE_WIDTH == 6
CDG_TILE_HEIGHT == 12
CDG_BORDER_X == 6
CDG_BORDER_Y == 12
CDG_WIDTH == TilesAcross * CDG_TILE_WIDTH
CDG_HEIGHT == TilesDown * CDG_TILE_HEIGHT
CDG_VISIBLE_WIDTH == CDG_WIDTH - 2 * CDG_BORDER_X
CDG_VISIBLE_HEIGHT == CDG_HEIGHT - 2 * CDG_BORDER_Y
CDG_PACKETS_PER_SECOND == 300
CDG_PACKET_SIZE == 24
CDG_COLORS == 16

INST_MEMORY_PRESET == 1
INST_BORDER_PRESET == 2
INST_TILE_BLOCK == 6
INST_SCROLL_PRESET == 20
INST_SCROLL_COPY == 24
INST_DEFINE_TRANSPARENT == 28
INST_LOAD_COLOR_TABLE_LO == 30
INST_LOAD_COLOR_TABLE_HI == 31
INST_TILE_BLOCK_XOR == 38

\* n milliseconds in the model's time unit (a third of a millisecond).
Ms(n) == 3 * n

Max(a, b) == IF a >= b THEN a ELSE b
Min(a, b) == IF a <= b THEN a ELSE b

\* ------------------------------------------------------ bit arithmetic
\* a & b, a ^ b, a | b on non-negative integers, bit by bit.
\* A mask that lets every bit through.
BitAnd_unmasked(a, b) == a

RECURSIVE BitAnd(_, _)
BitAnd(a, b) ==
  IF a = 0 \/ b = 0 THEN 0
  ELSE (IF a % 2 = 1 /\ b % 2 = 1 THEN 1 ELSE 0) + 2 * BitAnd(a \div 2, b \div 2)

RECURSIVE BitXor(_, _)
BitXor(a, b) ==
  IF a = 0 THEN b
  ELSE IF b = 0 THEN a
  ELSE (IF a % 2 = b % 2 THEN 0 ELSE 1) + 2 * BitXor(a \div 2, b \div 2)

RECURSIVE BitOr(_, _)
BitOr(a, b) ==
  IF a = 0 THEN b
  ELSE IF b = 0 THEN a
  ELSE (IF a % 2 = 1 \/ b % 2 = 1 THEN 1 ELSE 0) + 2 * BitOr(a \div 2, b \div 2)

RECURSIVE Pow2(_)
Pow2(n) == IF n = 0 THEN 1 ELSE 2 * Pow2(n - 1)

\* a >> n and a << n.
Shr(a, n) == a \div Pow2(n)
Shl(a, n) == a * Pow2(n)

\* ---------------------------------------------------------------- decoder
\* data[k] of a Buffer slice held as a sequence (JavaScript indexes from 0).
At(data, k) == data[k + 1]

\* One palette entry of a LoadColorTable payload: bytes 2i and 2i+1.
ParseColor(data, i) ==
  LET lo == BitAnd(At(data, i * 2), 63)
      hi == BitAnd(At(data, i * 2 + 1), 63)
  IN  [r |-> Shr(BitAnd(lo, 60), 2) * 17,
       g |-> BitOr(Shl(BitAnd(lo, 3), 2), Shr(BitAnd(hi, 48), 4)) * 17,
       b |-> BitAnd(hi, 15) * 17]

\* A value or null: <<v>> or Null.
Null == <<>>
Some(v) == <<v>>

\* parseInstruction(instruction, data): the instruction, or null for an
\* unknown opcode.
ParseKnown(instruction, data) ==
  CASE instruction = INST_MEMORY_PRESET ->
         [type |-> "memoryPreset",
          color |-> BitAnd(At(data, 0), 15),
          repeat |-> BitAnd(At(data, 1), 15)]
    [] instruction = INST_BORDER_PRESET ->
         [type |-> "borderPreset", color |-> BitAnd(At(data, 0), 15)]
    [] instruction \in {INST_TILE_BLOCK, INST_TILE_BLOCK_XOR} ->
         [type |-> "tileBlock",
          xor |-> (instruction = INST_TILE_BLOCK_XOR),
          color0 |-> BitAnd(At(data, 0), 15),
          color1 |-> BitAnd(At(data, 1), 15),
          row |-> BitAnd(At(data, 2), 31),
          column |-> BitAnd(At(data, 3), 63),
          pixels |-> [k \in 1..12 |-> BitAnd(At(data, 4 + k - 1), 63)]]
    [] instruction \in {INST_SCROLL_PRESET, INST_SCROLL_COPY} ->
         [type |-> "scroll",
          copy |-> (instruction = INST_SCROLL_COPY),
          color |-> BitAnd(At(data, 0), 15),
          hScroll |-> Shr(BitAnd(At(data, 1), 48), 4),
          vScroll |-> Shr(BitAnd(At(data, 2), 48), 4),
          hOffset |-> BitAnd(At(data, 1), 7),
          vOffset |-> BitAnd(At(data, 2), 15)]
    [] instruction = INST_DEFINE_TRANSPARENT ->
         [type |-> "defineTransparent", color |-> BitAnd(At(data, 0), 15)]
    [] instruction \in {INST_LOAD_COLOR_TABLE_LO, INST_LOAD_COLOR_TABLE_HI} ->
         [type |-> "loadColorTable",
          offset |-> (IF instruction = INST_LOAD_COLOR_TABLE_HI THEN 8 ELSE 0),
          colors |-> [i \in 1..8 |-> ParseColor(data, i - 1)]]

KnownInstructions ==
  {INST_MEMORY_PRESET, INST_BORDER_PRESET, INST_TILE_BLOCK, INST_TILE_BLOCK_XOR,
   INST_SCROLL_PRESET, INST_SCROLL_COPY, INST_DEFINE_TRANSPARENT,
   INST_LOAD_COLOR_TABLE_LO, INST_LOAD_COLOR_TABLE_HI}

parseInstruction(instruction, data) ==
  IF instruction \in KnownInstructions THEN Some(ParseKnown(instruction, data)) ELSE Null

\* A file's content: its length and its bytes.  Only the non-zero bytes are
\* listed; every other byte below the length is 0.
ByteAt(buffer, k) == IF k \in DOMAIN buffer.bytes THEN buffer.bytes[k] ELSE 0

\* A packet time rounded down to a whole millisecond.
PacketTimeMs_whole(i) == Ms((i * 1000) \div CDG_PACKETS_PER_SECOND)

\* (i / CDG_PACKETS_PER_SECOND) * 1000, in thirds of a millisecond.
PacketTimeMs(i) == (i * Ms(1000)) \div CDG_PACKETS_PER_SECOND

\* The loop body comparing the command byte without masking it.
ParsePacket_unmasked(buffer, i) ==
  LET offset == i * CDG_PACKET_SIZE
      command == ByteAt(buffer, offset)
      instruction == BitAnd(ByteAt(buffer, offset + 1), 63)
      data == [k \in 1..16 |-> ByteAt(buffer, offset + 4 + k - 1)]
      parsed == parseInstruction(instruction, data)
  IN  IF command # 9 THEN Null
      ELSE IF parsed = Null THEN Null
      ELSE Some([timeMs |-> PacketTimeMs(i), instruction |-> parsed[1]])

\* What the body of parseCdgFile's loop does with the packet at ordinal i:
\* Null when it is skipped (foreign command, unknown opcode), else the
\* packet pushed.
ParsePacket(buffer, i) ==
  LET offset == i * CDG_PACKET_SIZE
      command == BitAnd(ByteAt(buffer, offset), 63)
      instruction == BitAnd(ByteAt(buffer, offset + 1), 63)
      data == [k \in 1..16 |-> ByteAt(buffer, offset + 4 + k - 1)]
      parsed == parseInstruction(instruction, data)
  IN  IF command # 9 THEN Null
      ELSE IF parsed = Null THEN Null
      ELSE Some([timeMs |-> PacketTimeMs(i), instruction |-> parsed[1]])

\* The loop of parseCdgFile over i = 0 .. numPackets - 1: the packets pushed,
\* in the order of their ordinals.
ParseLoop(buffer, numPackets) ==
  LET pushed == {i \in 0..(numPackets - 1) : ParsePacket(buffer, i) # Null}
      nth(k) == CHOOSE i \in pushed : Cardinality({j \in pushed : j <= i}) = k
  IN  [k \in 1..Cardinality(pushed) |-> ParsePacket(buffer, nth(k))[1]]

\* parseCdgFile counting a partial trailing packet as a packet.
ParseBuffer_roundUp(buffer) ==
  LET numPackets == (buffer.length + CDG_PACKET_SIZE - 1) \div CDG_PACKET_SIZE
  IN  [packets |-> ParseLoop(buffer, numPackets),
       durationMs |-> PacketTimeMs(numPackets)]

\* parseCdgFile on the bytes read: {packets, durationMs}.
ParseBuffer(buffer) ==
  LET numPackets == buffer.length \div CDG_PACKET_SIZE
  IN  [packets |-> ParseLoop(buffer, numPackets),
       durationMs |-> PacketTimeMs(numPackets)]

\* --------------------------------------------------------------- renderer
\* The state a CdgRenderer is constructed with.
NewRenderer ==
  [pixels |-> [i \in 0..(CDG_WIDTH * CDG_HEIGHT - 1) |-> 0],
   palette |-> [i \in 0..(CDG_COLORS - 1) |-> [r |-> 0, g |-> 0, b |-> 0]],
   transparentColor |-> -1,
   borderColor |-> 0,
   hOffset |-> 0,
   vOffset |-> 0]

\* reset() that keeps the palette and the transparent marker.
reset_keepPalette(rd) ==
  [rd EXCEPT !.pixels = [i \in DOMAIN rd.pixels |-> 0],
             !.borderColor = 0,
             !.hOffset = 0,
             !.vOffset = 0]

\* CdgRenderer.reset(): every field back to its constructed value.
reset(rd) ==
  [rd EXCEPT !.pixels = [i \in DOMAIN rd.pixels |-> 0],
             !.palette = [i \in 0..(CDG_COLORS - 1) |-> [r |-> 0, g |-> 0, b |-> 0]],
             !.transparentColor = -1,
             !.borderColor = 0,
             !.hOffset = 0,
             !.vOffset = 0]

\* The cells the four loops of drawBorder write.
InBorder(x, y) ==
  \/ y < CDG_BORDER_Y
  \/ y >= CDG_HEIGHT - CDG_BORDER_Y
  \/ (y >= CDG_BORDER_Y /\ y < CDG_HEIGHT - CDG_BORDER_Y /\ x < CDG_BORDER_X)
  \/ (y >= CDG_BORDER_Y /\ y < CDG_HEIGHT - CDG_BORDER_Y /\ x >= CDG_WIDTH - CDG_BORDER_X)

\* drawBorder that paints the inner area too.
drawBorder_fill(pixels, color) == [i \in DOMAIN pixels |-> color]

drawBorder(pixels, color) ==
  [i \in DOMAIN pixels |->
     IF InBorder(i % CDG_WIDTH, i \div CDG_WIDTH) THEN color ELSE pixels[i]]

\* drawTile without the bounds guard: the writes of a tile past the right
\* edge land in the next rows, those past the last row are dropped.
drawTile_noGuard(pixels, tile) ==
  LET startX == tile.column * CDG_TILE_WIDTH
      startY == tile.row * CDG_TILE_HEIGHT
  IN  [i \in DOMAIN pixels |->
         LET j == i - startY * CDG_WIDTH - startX
             col == j % CDG_WIDTH
             row == j \div CDG_WIDTH
         IN  IF j >= 0 /\ col < CDG_TILE_WIDTH /\ row < CDG_TILE_HEIGHT
             THEN LET pixelData == tile.pixels[row + 1]
                      bit == BitAnd(Shr(pixelData, 5 - col), 1)
                      color == IF bit # 0 THEN tile.color1 ELSE tile.color0
                  IN  IF tile.xor THEN BitXor(pixels[i], color) ELSE color
             ELSE pixels[i]]

\* drawTile that adds the colour to the cell where the code XORs it.
drawTile_add(pixels, tile) ==
  LET startX == tile.column * CDG_TILE_WIDTH
      startY == tile.row * CDG_TILE_HEIGHT
  IN  IF startX + CDG_TILE_WIDTH > CDG_WIDTH \/ startY + CDG_TILE_HEIGHT > CDG_HEIGHT
      THEN pixels
      ELSE [i \in DOMAIN pixels |->
              LET x == i % CDG_WIDTH
                  y == i \div CDG_WIDTH
                  col == x - startX
                  row == y - startY
              IN  IF col >= 0 /\ col < CDG_TILE_WIDTH /\ row >= 0 /\ row < CDG_TILE_HEIGHT
                  THEN LET pixelData == tile.pixels[row + 1]
                           bit == BitAnd(Shr(pixelData, 5 - col), 1)
                           color == IF bit # 0 THEN tile.color1 ELSE tile.color0
                       IN  IF tile.xor THEN pixels[i] + color ELSE color
                  ELSE pixels[i]]

drawTile(pixels, tile) ==
  LET startX == tile.column * CDG_TILE_WIDTH
      startY == tile.row * CDG_TILE_HEIGHT
  IN  IF startX + CDG_TILE_WIDTH > CDG_WIDTH \/ startY + CDG_TILE_HEIGHT > CDG_HEIGHT
      THEN pixels
      ELSE [i \in DOMAIN pixels |->
              LET x == i % CDG_WIDTH
                  y == i \div CDG_WIDTH
                  col == x - startX
                  row == y - startY
              IN  IF col >= 0 /\ col < CDG_TILE_WIDTH /\ row >= 0 /\ row < CDG_TILE_HEIGHT
                  THEN LET pixelData == tile.pixels[row + 1]
                           bit == BitAnd(Shr(pixelData, 5 - col), 1)
                           color == IF bit # 0 THEN tile.color1 ELSE tile.color0
                       IN  IF tile.xor THEN BitXor(pixels[i], color) ELSE color
                  ELSE pixels[i]]

\* scrollDisplay whose copy mode fills with the colour instead of wrapping.
scrollDisplay_noWrap(pixels, scroll) ==
  LET hDir == IF scroll.hScroll = 2 THEN -CDG_TILE_WIDTH
              ELSE IF scroll.hScroll = 1 THEN CDG_TILE_WIDTH ELSE 0
      vDir == IF scroll.vScroll = 2 THEN -CDG_TILE_HEIGHT
              ELSE IF scroll.vScroll = 1 THEN CDG_TILE_HEIGHT ELSE 0
  IN  [i \in DOMAIN pixels |->
         LET srcX == (i % CDG_WIDTH) + hDir
             srcY == (i \div CDG_WIDTH) + vDir
         IN  IF srcX < 0 \/ srcX >= CDG_WIDTH \/ srcY < 0 \/ srcY >= CDG_HEIGHT
             THEN scroll.color
             ELSE pixels[srcY * CDG_WIDTH + srcX]]

scrollDisplay(pixels, scroll) ==
  LET hDir == IF scroll.hScroll = 2 THEN -CDG_TILE_WIDTH
              ELSE IF scroll.hScroll = 1 THEN CDG_TILE_WIDTH ELSE 0
      vDir == IF scroll.vScroll = 2 THEN -CDG_TILE_HEIGHT
              ELSE IF scroll.vScroll = 1 THEN CDG_TILE_HEIGHT ELSE 0
  IN  [i \in DOMAIN pixels |->
         LET x == i % CDG_WIDTH
             y == i \div CDG_WIDTH
             srcX == x + hDir
             srcY == y + vDir
         IN  IF scroll.copy
             THEN pixels[(srcY % CDG_HEIGHT) * CDG_WIDTH + (srcX % CDG_WIDTH)]
             ELSE IF srcX < 0 \/ srcX >= CDG_WIDTH \/ srcY < 0 \/ srcY >= CDG_HEIGHT
                  THEN scroll.color
                  ELSE pixels[srcY * CDG_WIDTH + srcX]]

\* applyInstruction whose scroll stores the offsets only when it scrolls.
applyInstruction_lazyOffsets(rd, inst) ==
  CASE inst.type = "memoryPreset" ->
         IF inst.repeat = 0
         THEN [rd EXCEPT !.pixels = [i \in DOMAIN rd.pixels |-> inst.color]]
         ELSE rd
    [] inst.type = "borderPreset" ->
         [rd EXCEPT !.borderColor = inst.color,
                    !.pixels = drawBorder(rd.pixels, inst.color)]
    [] inst.type = "tileBlock" ->
         [rd EXCEPT !.pixels = drawTile(rd.pixels, inst)]
    [] inst.type = "scroll" ->
         IF inst.hScroll # 0 \/ inst.vScroll # 0
         THEN [rd EXCEPT !.hOffset = inst.hOffset,
                         !.vOffset = inst.vOffset,
                         !.pixels = scrollDisplay(rd.pixels, inst)]
         ELSE rd
    [] inst.type = "defineTransparent" ->
         [rd EXCEPT !.transparentColor = inst.color]
    [] inst.type = "loadColorTable" ->
         [rd EXCEPT !.palette =
            [k \in DOMAIN rd.palette |->
               IF k >= inst.offset /\ k < inst.offset + 8
               THEN inst.colors[k - inst.offset + 1]
               ELSE rd.palette[k]]]

\* applyInstruction whose memory preset clears the grid whatever its repeat.
applyInstruction_clearAlways(rd, inst) ==
  CASE inst.type = "memoryPreset" ->
         [rd EXCEPT !.pixels = [i \in DOMAIN rd.pixels |-> inst.color]]
    [] inst.type = "borderPreset" ->
         [rd EXCEPT !.borderColor = inst.color,
                    !.pixels = drawBorder(rd.pixels, inst.color)]
    [] inst.type = "tileBlock" ->
         [rd EXCEPT !.pixels = drawTile(rd.pixels, inst)]
    [] inst.type = "scroll" ->
         [rd EXCEPT !.hOffset = inst.hOffset,
                    !.vOffset = inst.vOffset,
                    !.pixels = IF inst.hScroll # 0 \/ inst.vScroll # 0
                               THEN scrollDisplay(rd.pixels, inst)
                               ELSE rd.pixels]
    [] inst.type = "defineTransparent" ->
         [rd EXCEPT !.transparentColor = inst.color]
    [] inst.type = "loadColorTable" ->
         [rd EXCEPT !.palette =
            [k \in DOMAIN rd.palette |->
               IF k >= inst.offset /\ k < inst.offset + 8
               THEN inst.colors[k - inst.offset + 1]
               ELSE rd.palette[k]]]

\* applyInstruction whose memory preset never clears the grid.
applyInstruction_noClear(rd, inst) ==
  CASE inst.type = "memoryPreset" -> rd
    [] inst.type = "borderPreset" ->
         [rd EXCEPT !.borderColor = inst.color,
                    !.pixels = drawBorder(rd.pixels, inst.color)]
    [] inst.type = "tileBlock" ->
         [rd EXCEPT !.pixels = drawTile(rd.pixels, inst)]
    [] inst.type = "scroll" ->
         [rd EXCEPT !.hOffset = inst.hOffset,
                    !.vOffset = inst.vOffset,
                    !.pixels = IF inst.hScroll # 0 \/ inst.vScroll # 0
                               THEN scrollDisplay(rd.pixels, inst)
                               ELSE rd.pixels]
    [] inst.type = "defineTransparent" ->
         [rd EXCEPT !.transparentColor = inst.color]
    [] inst.type = "loadColorTable" ->
         [rd EXCEPT !.palette =
            [k \in DOMAIN rd.palette |->
               IF k >= inst.offset /\ k < inst.offset + 8
               THEN inst.colors[k - inst.offset + 1]
               ELSE rd.palette[k]]]

\* CdgRenderer.applyInstruction(inst).
applyInstruction(rd, inst) ==
  CASE inst.type = "memoryPreset" ->
         IF inst.repeat = 0
         THEN [rd EXCEPT !.pixels = [i \in DOMAIN rd.pixels |-> inst.color]]
         ELSE rd
    [] inst.type = "borderPreset" ->
         [rd EXCEPT !.borderColor = inst.color,
                    !.pixels = drawBorder(rd.pixels, inst.color)]
    [] inst.type = "tileBlock" ->
         [rd EXCEPT !.pixels = drawTile(rd.pixels, inst)]
    [] inst.type = "scroll" ->
         [rd EXCEPT !.hOffset = inst.hOffset,
                    !.vOffset = inst.vOffset,
                    !.pixels = IF inst.hScroll # 0 \/ inst.vScroll # 0
                               THEN scrollDisplay(rd.pixels, inst)
                               ELSE rd.pixels]
    [] inst.type = "defineTransparent" ->
         [rd EXCEPT !.transparentColor = inst.color]
    [] inst.type = "loadColorTable" ->
         [rd EXCEPT !.palette =
            [k \in DOMAIN rd.palette |->
               IF k >= inst.offset /\ k < inst.offset + 8
               THEN inst.colors[k - inst.offset + 1]
               ELSE rd.palette[k]]]

\* The bytes of a cell with the red and blue channels exchanged.
Rgba_bgr(rd, colorIdx) ==
  LET color == rd.palette[colorIdx]
  IN  <<color.b, color.g, color.r, IF colorIdx = rd.transparentColor THEN 0 ELSE 255>>

\* The four bytes one cell contributes to an RGBA frame.
Rgba(rd, colorIdx) ==
  LET color == rd.palette[colorIdx]
  IN  <<color.r, color.g, color.b, IF colorIdx = rd.transparentColor THEN 0 ELSE 255>>

\* CdgRenderer.getVisibleRgbaFrame().  A source index past the end of the
\* pixel array reads undefined, palette[undefined] is undefined, and the
\* read of its .r throws a TypeError.
VisibleSrcIdx(rd, x, y) ==
  (y + CDG_BORDER_Y + rd.vOffset) * CDG_WIDTH + (x + CDG_BORDER_X + rd.hOffset)

getVisibleRgbaFrame(rd) ==
  IF \E y \in 0..(CDG_VISIBLE_HEIGHT - 1), x \in 0..(CDG_VISIBLE_WIDTH - 1) :
       VisibleSrcIdx(rd, x, y) \notin DOMAIN rd.pixels
  THEN [error |-> "TypeError"]
  ELSE [error |-> "none",
        rgba |-> [k \in 0..(CDG_VISIBLE_WIDTH * CDG_VISIBLE_HEIGHT * 4 - 1) |->
                    LET cell == k \div 4
                        x == cell % CDG_VISIBLE_WIDTH
                        y == cell \div CDG_VISIBLE_WIDTH
                    IN  Rgba(rd, rd.pixels[VisibleSrcIdx(rd, x, y)])[(k % 4) + 1]]]

\* CdgRenderer.getRgbaFrame().
getRgbaFrame(rd) ==
  [k \in 0..(CDG_WIDTH * CDG_HEIGHT * 4 - 1) |-> Rgba(rd, rd.pixels[k \div 4])[(k % 4) + 1]]

\* ------------------------------------------------------------ input files
\* The bytes of the packet at ordinal position i: command, instruction and
\* the 16 data bytes at offsets 4..19 (the other bytes are left 0).
PacketBytes(i, command, instruction, data) ==
  LET base == i * CDG_PACKET_SIZE
  IN  [k \in ({base, base + 1} \cup (base + 4)..(base + 19)) |->
         IF k = base THEN command
         ELSE IF k = base + 1 THEN instruction
         ELSE data[k - base - 4 + 1]]

\* A 16-byte data region from its leading bytes.
Data(lead) == [k \in 1..16 |-> IF k <= Len(lead) THEN lead[k] ELSE 0]

TilePattern == <<63, 42, 21, 0, 255, 1, 32, 12, 51, 30, 33, 7>>

\* a.cdg: 480 packets (1600 ms) and 10 trailing bytes.  Instructions at
\* 0, 3.33, 6.67 and 10 ms, at 500 ms, at 1100 ms and at 1500, 1503.33 and
\* 1506.67 ms; a packet with a foreign command (ordinal 151), one
\* with an unknown opcode (ordinal 331) and a tile outside the frame buffer
\* (ordinal 3).  The scroll at 1500 ms sets vOffset = 13, the one at
\* 1503.33 ms sets it to 3.
FileA ==
  [length |-> 480 * CDG_PACKET_SIZE + 10,
   bytes |->
     PacketBytes(0, 9, INST_MEMORY_PRESET, Data(<<65, 0>>))
     @@ PacketBytes(1, 73, INST_TILE_BLOCK_XOR, Data(<<2, 5, 1, 1>> \o TilePattern))
     @@ PacketBytes(2, 9, INST_LOAD_COLOR_TABLE_LO,
                    Data(<<63, 63, 60, 0, 3, 48, 0, 15, 21, 42, 0, 0, 0, 0, 4, 16>>))
     @@ PacketBytes(3, 9, INST_TILE_BLOCK, Data(<<1, 6, 1, 60>> \o TilePattern))
     @@ PacketBytes(150, 9, INST_SCROLL_COPY, Data(<<0, 18, 3>>))
     @@ PacketBytes(151, 8, INST_MEMORY_PRESET, Data(<<9, 0>>))
     @@ PacketBytes(330, 9, INST_TILE_BLOCK_XOR + 64, Data(<<2, 5, 1, 1>> \o TilePattern))
     @@ PacketBytes(331, 9, 5, Data(<<1, 1>>))
     @@ PacketBytes(450, 9, INST_SCROLL_PRESET, Data(<<6, 0, 13>>))
     @@ PacketBytes(451, 9, INST_SCROLL_PRESET, Data(<<6, 1, 3>>))
     @@ PacketBytes(452, 9, INST_DEFINE_TRANSPARENT, Data(<<1>>))]

\* e.cdg: 10 bytes, no whole packet (0 ms).
FileE == [length |-> 10, bytes |-> <<>>]

\* b.cdg: 2 packets (6.67 ms); the scroll at 0 ms sets vOffset = 13.
FileB ==
  [length |-> 2 * CDG_PACKET_SIZE,
   bytes |-> PacketBytes(0, 9, INST_SCROLL_PRESET, Data(<<0, 0, 13>>))]

\* The files that exist; missing.cdg does not.
FileSystem ==
  [path \in {"a.cdg", "b.cdg", "e.cdg"} |->
     CASE path = "a.cdg" -> FileA
       [] path = "b.cdg" -> FileB
       [] path = "e.cdg" -> FileE]

\* parseCdgFile of every existing file.
ParsedFiles == [path \in DOMAIN FileSystem |-> ParseBuffer(FileSystem[path])]

\* parseCdgFile(filePath): fs.readFileSync throws on a missing file.
parseCdgFile(filePath) ==
  IF filePath \in DOMAIN FileSystem
  THEN [error |-> "none", data |-> ParsedFiles[filePath]]
  ELSE [error |-> "ENOENT"]

\* The arguments loadSong is called with.
Songs ==
  {[cdgPath |-> "a.cdg", audioPath |-> "a.mp3", title |-> "A", singerName |-> "Ann", songId |-> 1],
   [cdgPath |-> "e.cdg", audioPath |-> "e.mp3", title |-> "E", singerName |-> "Eve", songId |-> 2],
   [cdgPath |-> "b.cdg", audioPath |-> "b.mp3", title |-> "B", singerName |-> "Bea", songId |-> 4],
   [cdgPath |-> "missing.cdg", audioPath |-> "m.mp3", title |-> "M", singerName |-> "Max", songId |-> 3]}

\* The times seek and syncToAudioTime are called with.
ArgTimes == {-Ms(1), Ms(1500) + 1, Ms(1700)}

\* Date.now() at the start, and the step by which the wall clock advances.
Epoch == Ms(1000)
ClockStep == Ms(900)

\* songId of the song whose file is missing.
MissingSong == CHOOSE song \in Songs : song.cdgPath \notin DOMAIN FileSystem

\* ----------------------------------------------------------------- player
VARIABLES
  cdgData,         \* CdgPlayer.cdgData: Null or Some(the parsed file)
  renderer,        \* CdgPlayer.renderer: the CdgRenderer's fields
  state,           \* CdgPlayer.state
  animationFrame,  \* the timer handle: "null", or the timer it names is "pending" or "fired"
  timers,          \* the number of update callbacks pending in the timer queue
  lastUpdateTime,  \* CdgPlayer.lastUpdateTime
  packetIndex,     \* CdgPlayer.packetIndex, the replay cursor
  startTime,       \* CdgPlayer.startTime
  pauseTime,       \* CdgPlayer.pauseTime
  now,             \* Date.now()
  events,          \* the events the call in op emitted, in order
  threw,           \* the error the call in op threw, or "none"
  op,              \* the call that has just run (its name and argument), or idle
  songClock,       \* song time that has passed since the last (re-)anchoring
  seekTarget,      \* the clamped target of a seek no tick has followed yet, or Null
  audioClock,      \* the largest audio time the host reported since play() (or the
                   \* last seek target after it), or Null when it reported none
  canvas,          \* a CdgRenderer driven directly, instruction by instruction
  applied,         \* the number of instructions applied to canvas since its reset
  fileBuffer,      \* the bytes fs.readFileSync returned to a parseCdgFile call, or Null
  parsedCdg        \* what that parseCdgFile call returned, or Null before it returns

vars == <<cdgData, renderer, state, animationFrame, timers, lastUpdateTime,
          packetIndex, startTime, pauseTime, now, events, threw, op, songClock,
          seekTarget, audioClock,
          canvas, applied, fileBuffer, parsedCdg>>

\* The objects outside the player.
bench == <<canvas, applied, fileBuffer, parsedCdg>>

\* The player object as one record: a method is a function from the object
\* before the call to the object after it.
Self ==
  [cdgData |-> cdgData, renderer |-> renderer, state |-> state,
   animationFrame |-> animationFrame, timers |-> timers,
   lastUpdateTime |-> lastUpdateTime, packetIndex |-> packetIndex,
   startTime |-> startTime, pauseTime |-> pauseTime,
   events |-> <<>>, threw |-> "none"]

emit(P, event) == [P EXCEPT !.events = Append(@, event)]

getState(P) == P.state

\* emitFrame() with getCurrentFrame(): nothing without a song; the read of
\* the visible frame may throw.
emitFrame(P) ==
  IF P.cdgData = Null THEN P
  ELSE LET frame == getVisibleRgbaFrame(P.renderer)
       IN  IF frame.error # "none" THEN [P EXCEPT !.threw = frame.error]
           ELSE emit(P, [type |-> "frame",
                         width |-> CDG_VISIBLE_WIDTH,
                         height |-> CDG_VISIBLE_HEIGHT,
                         rgba |-> frame.rgba,
                         timestamp |-> P.state.currentTime])

\* The while loop shared by applyPacketsUpTo and applyPacketsFromTo.
RECURSIVE ApplyWhile(_, _)
ApplyWhile(P, timeMs) ==
  IF /\ P.packetIndex < Len(P.cdgData[1].packets)
     /\ P.cdgData[1].packets[P.packetIndex + 1].timeMs <= timeMs
  THEN LET packet == P.cdgData[1].packets[P.packetIndex + 1]
       IN  ApplyWhile([P EXCEPT !.renderer = applyInstruction(@, packet.instruction),
                                !.packetIndex = @ + 1],
                      timeMs)
  ELSE P

applyPacketsUpTo(P, timeMs) ==
  IF P.cdgData = Null THEN P
  ELSE [ApplyWhile(P, timeMs) EXCEPT !.state.currentTime = timeMs]

\* applyPacketsFromTo that applies nothing.
applyPacketsFromTo_skip(P, fromMs, toMs) == P

\* applyPacketsFromTo that starts over from the first packet.
applyPacketsFromTo_rewind(P, fromMs, toMs) ==
  IF P.cdgData = Null THEN P
  ELSE ApplyWhile([P EXCEPT !.packetIndex = 0], toMs)

applyPacketsFromTo(P, fromMs, toMs) ==
  IF P.cdgData = Null THEN P
  ELSE ApplyWhile(P, toMs)

\* stopAnimationLoop that forgets the handle without clearing its timer.
stopAnimationLoop_noClear(P) ==
  IF P.animationFrame # "null" THEN [P EXCEPT !.animationFrame = "null"] ELSE P

\* clearTimeout on the handle, if any.
stopAnimationLoop(P) ==
  IF P.animationFrame # "null"
  THEN [P EXCEPT !.timers = IF P.animationFrame = "pending" THEN @ - 1 ELSE @,
                 !.animationFrame = "null"]
  ELSE P

\* stop that leaves the renderer as it is.
stop_keepRenderer(P) ==
  LET P1 == stopAnimationLoop(P)
      P2 == IF P1.cdgData # Null THEN [P1 EXCEPT !.packetIndex = 0] ELSE P1
      P3 == [P2 EXCEPT !.state.playing = FALSE,
                       !.state.paused = FALSE,
                       !.state.currentTime = 0]
  IN  emit(P3, [type |-> "stop", state |-> getState(P3)])

\* stop that tells no listener.
stop_noEmit(P) ==
  LET P1 == stopAnimationLoop(P)
      P2 == IF P1.cdgData # Null
            THEN [P1 EXCEPT !.renderer = reset(@), !.packetIndex = 0]
            ELSE P1
  IN  [P2 EXCEPT !.state.playing = FALSE,
                 !.state.paused = FALSE,
                 !.state.currentTime = 0]

stop(P) ==
  LET P1 == stopAnimationLoop(P)
      P2 == IF P1.cdgData # Null
            THEN [P1 EXCEPT !.renderer = reset(@), !.packetIndex = 0]
            ELSE P1
      P3 == [P2 EXCEPT !.state.playing = FALSE,
                       !.state.paused = FALSE,
                       !.state.currentTime = 0]
  IN  emit(P3, [type |-> "stop", state |-> getState(P3)])

\* The timer callback of startAnimationLoop, run at wall time t.
update(P, t) ==
  IF ~P.state.playing \/ P.state.paused THEN P
  ELSE
    LET currentTime == t - P.startTime
        P1 == [applyPacketsFromTo(P, P.state.currentTime, currentTime)
                 EXCEPT !.state.currentTime = currentTime]
        P2 == emitFrame(P1)
        P3 == IF t - P2.lastUpdateTime > Ms(100)
              THEN [emit(P2, [type |-> "update", state |-> getState(P2)])
                      EXCEPT !.lastUpdateTime = t]
              ELSE P2
    IN  IF P2.threw # "none" THEN P2
        ELSE IF currentTime >= P3.state.duration
             THEN emit(stop(P3), [type |-> "ended"])
             ELSE [P3 EXCEPT !.animationFrame = "pending", !.timers = @ + 1]

startAnimationLoop(P, t) == update(stopAnimationLoop(P), t)

\* play that resumes without moving the start anchor by the paused time.
play_keepAnchor(P, t) ==
  IF P.cdgData = Null THEN P
  ELSE IF P.state.playing /\ ~P.state.paused THEN P
  ELSE
    LET P1 == [P EXCEPT !.startTime = IF P.state.paused THEN @ ELSE t,
                        !.state.playing = TRUE,
                        !.state.paused = FALSE,
                        !.lastUpdateTime = t]
        P2 == startAnimationLoop(P1, t)
    IN  IF P2.threw # "none" THEN P2
        ELSE emit(P2, [type |-> "play", state |-> getState(P2)])

\* play without the check that a song is loaded.
play_noGuard(P, t) ==
  IF P.state.playing /\ ~P.state.paused THEN P
  ELSE
    LET P1 == [P EXCEPT !.startTime = IF P.state.paused THEN @ + (t - P.pauseTime) ELSE t,
                        !.state.playing = TRUE,
                        !.state.paused = FALSE,
                        !.lastUpdateTime = t]
        P2 == startAnimationLoop(P1, t)
    IN  IF P2.threw # "none" THEN P2
        ELSE emit(P2, [type |-> "play", state |-> getState(P2)])

play(P, t) ==
  IF P.cdgData = Null THEN P
  ELSE IF P.state.playing /\ ~P.state.paused THEN P
  ELSE
    LET P1 == [P EXCEPT !.startTime = IF P.state.paused THEN @ + (t - P.pauseTime) ELSE t,
                        !.state.playing = TRUE,
                        !.state.paused = FALSE,
                        !.lastUpdateTime = t]
        P2 == startAnimationLoop(P1, t)
    IN  IF P2.threw # "none" THEN P2
        ELSE emit(P2, [type |-> "play", state |-> getState(P2)])

\* pause without the check that the player is playing and not paused.
pause_noGuard(P, t) ==
  LET P1 == stopAnimationLoop([P EXCEPT !.state.paused = TRUE, !.pauseTime = t])
  IN  emit(P1, [type |-> "pause", state |-> getState(P1)])

\* pause that leaves the update loop running.
pause_keepLoop(P, t) ==
  IF ~P.state.playing \/ P.state.paused THEN P
  ELSE
    LET P1 == [P EXCEPT !.state.paused = TRUE, !.pauseTime = t]
    IN  emit(P1, [type |-> "pause", state |-> getState(P1)])

pause(P, t) ==
  IF ~P.state.playing \/ P.state.paused THEN P
  ELSE
    LET P1 == stopAnimationLoop([P EXCEPT !.state.paused = TRUE, !.pauseTime = t])
    IN  emit(P1, [type |-> "pause", state |-> getState(P1)])

\* Math.max(0, Math.min(timeMs, duration)).
Clamp(timeMs, duration) == Max(0, Min(timeMs, duration))

\* seek that keeps the renderer and the cursor it finds.
seek_noReset(P, timeMs, t) ==
  IF P.cdgData = Null THEN P
  ELSE
    LET target == Clamp(timeMs, P.state.duration)
        P1 == applyPacketsUpTo(P, target)
        P2 == [P1 EXCEPT !.state.currentTime = target,
                         !.startTime = IF P1.state.playing /\ ~P1.state.paused
                                       THEN t - target ELSE @]
        P3 == emitFrame(P2)
    IN  IF P3.threw # "none" THEN P3
        ELSE emit(P3, [type |-> "seek", timeMs |-> target, state |-> getState(P3)])

seek(P, timeMs, t) ==
  IF P.cdgData = Null THEN P
  ELSE
    LET target == Clamp(timeMs, P.state.duration)
        P1 == applyPacketsUpTo([P EXCEPT !.renderer = reset(@), !.packetIndex = 0], target)
        P2 == [P1 EXCEPT !.state.currentTime = target,
                         !.startTime = IF P1.state.playing /\ ~P1.state.paused
                                       THEN t - target ELSE @]
        P3 == emitFrame(P2)
    IN  IF P3.threw # "none" THEN P3
        ELSE emit(P3, [type |-> "seek", timeMs |-> target, state |-> getState(P3)])

\* syncToAudioTime that reseeks on every backward step, however small.
syncToAudioTime_eager(P, audioTimeMs, t) ==
  IF P.cdgData = Null \/ ~P.state.playing \/ P.state.paused THEN P
  ELSE
    LET resync == /\ ~(audioTimeMs > P.state.currentTime)
                  /\ audioTimeMs < P.state.currentTime
        P1 == IF audioTimeMs > P.state.currentTime
              THEN applyPacketsFromTo(P, P.state.currentTime, audioTimeMs)
              ELSE P
        P2 == [P1 EXCEPT !.state.currentTime = audioTimeMs]
    IN  IF resync THEN seek(P, audioTimeMs, t)
        ELSE IF audioTimeMs >= P2.state.duration
             THEN emit(stop(P2), [type |-> "ended"])
             ELSE P2

\* syncToAudioTime without the check for the end of the song.
syncToAudioTime_noEnd(P, audioTimeMs, t) ==
  IF P.cdgData = Null \/ ~P.state.playing \/ P.state.paused THEN P
  ELSE
    LET resync == /\ ~(audioTimeMs > P.state.currentTime)
                  /\ audioTimeMs < P.state.currentTime - Ms(1000)
        P1 == IF audioTimeMs > P.state.currentTime
              THEN applyPacketsFromTo(P, P.state.currentTime, audioTimeMs)
              ELSE P
    IN  IF resync THEN seek(P, audioTimeMs, t)
        ELSE [P1 EXCEPT !.state.currentTime = audioTimeMs]

syncToAudioTime(P, audioTimeMs, t) ==
  IF P.cdgData = Null \/ ~P.state.playing \/ P.state.paused THEN P
  ELSE
    LET resync == /\ ~(audioTimeMs > P.state.currentTime)
                  /\ audioTimeMs < P.state.currentTime - Ms(1000)
        P1 == IF audioTimeMs > P.state.currentTime
              THEN applyPacketsFromTo(P, P.state.currentTime, audioTimeMs)
              ELSE P
        P2 == [P1 EXCEPT !.state.currentTime = audioTimeMs]
    IN  IF resync THEN seek(P, audioTimeMs, t)
        ELSE IF audioTimeMs >= P2.state.duration
             THEN emit(stop(P2), [type |-> "ended"])
             ELSE P2

\* loadSong that does not apply the instructions of time 0.
loadSong_noSetup(P, song, t) ==
  LET P1 == stop(P)
      parsed == parseCdgFile(song.cdgPath)
  IN  IF parsed.error # "none" THEN [P1 EXCEPT !.threw = parsed.error]
      ELSE
        LET P2 == [P1 EXCEPT !.cdgData = Some(parsed.data),
                             !.renderer = reset(@),
                             !.packetIndex = 0,
                             !.state = [playing |-> FALSE,
                                        paused |-> FALSE,
                                        currentTime |-> 0,
                                        duration |-> parsed.data.durationMs,
                                        title |-> song.title,
                                        singerName |-> song.singerName,
                                        songId |-> song.songId,
                                        fileType |-> "cdg",
                                        audioPath |-> song.audioPath]]
        IN  emitFrame(P2)

\* loadSong that does not stop the playback in progress first.
loadSong_noStop(P, song, t) ==
  LET parsed == parseCdgFile(song.cdgPath)
  IN  IF parsed.error # "none" THEN [P EXCEPT !.threw = parsed.error]
      ELSE
        LET P2 == [P EXCEPT !.cdgData = Some(parsed.data),
                            !.renderer = reset(@),
                            !.packetIndex = 0,
                            !.state = [playing |-> FALSE,
                                       paused |-> FALSE,
                                       currentTime |-> 0,
                                       duration |-> parsed.data.durationMs,
                                       title |-> song.title,
                                       singerName |-> song.singerName,
                                       songId |-> song.songId,
                                       fileType |-> "cdg",
                                       audioPath |-> song.audioPath]]
        IN  emitFrame(applyPacketsUpTo(P2, 0))

loadSong(P, song, t) ==
  LET P1 == stop(P)
      parsed == parseCdgFile(song.cdgPath)
  IN  IF parsed.error # "none" THEN [P1 EXCEPT !.threw = parsed.error]
      ELSE
        LET P2 == [P1 EXCEPT !.cdgData = Some(parsed.data),
                             !.renderer = reset(@),
                             !.packetIndex = 0,
                             !.state = [playing |-> FALSE,
                                        paused |-> FALSE,
                                        currentTime |-> 0,
                                        duration |-> parsed.data.durationMs,
                                        title |-> song.title,
                                        singerName |-> song.singerName,
                                        songId |-> song.songId,
                                        fileType |-> "cdg",
                                        audioPath |-> song.audioPath]]
        IN  emitFrame(applyPacketsUpTo(P2, 0))

\* --------------------------------------------------------------- actions
\* No call is running.
IdleOp == [name |-> "idle", arg |-> 0]

Init ==
  /\ cdgData = Null
  /\ renderer = NewRenderer
  /\ state = [playing |-> FALSE, paused |-> FALSE, currentTime |-> 0, duration |-> 0,
              title |-> "", singerName |-> "", songId |-> 0, fileType |-> "cdg",
              audioPath |-> "null"]
  /\ animationFrame = "null"
  /\ timers = 0
  /\ lastUpdateTime = 0
  /\ packetIndex = 0
  /\ startTime = 0
  /\ pauseTime = 0
  /\ now = Epoch
  /\ events = <<>>
  /\ threw = "none"
  /\ op = IdleOp
  /\ songClock = 0
  /\ seekTarget = Null
  /\ audioClock = Null
  /\ canvas = NewRenderer
  /\ applied = 0
  /\ fileBuffer = Null
  /\ parsedCdg = Null

\* The object after a call becomes the state.
Commit(Q) ==
  /\ cdgData' = Q.cdgData
  /\ renderer' = Q.renderer
  /\ state' = Q.state
  /\ animationFrame' = Q.animationFrame
  /\ timers' = Q.timers
  /\ lastUpdateTime' = Q.lastUpdateTime
  /\ packetIndex' = Q.packetIndex
  /\ startTime' = Q.startTime
  /\ pauseTime' = Q.pauseTime
  /\ events' = Q.events
  /\ threw' = Q.threw
  /\ UNCHANGED bench

Running == state.playing /\ ~state.paused

\* JavaScript runs each call and each timer callback to completion: a call
\* starts only when none is running.
Idle == op = IdleOp

LoadSong ==
  \E song \in Songs :
    /\ Idle
    /\ Commit(loadSong(Self, song, now))
    /\ op' = [name |-> "loadSong", arg |-> song.songId]
    /\ seekTarget' = Null
    /\ audioClock' = Null
    /\ UNCHANGED <<now, songClock>>

Play ==
  /\ Idle
  /\ Commit(play(Self, now))
  /\ op' = [name |-> "play", arg |-> 0]
  /\ songClock' = IF cdgData # Null /\ ~state.playing THEN 0 ELSE songClock
  /\ seekTarget' = IF cdgData # Null /\ ~Running THEN Null ELSE seekTarget
  /\ audioClock' = IF cdgData # Null /\ ~state.playing THEN Null
                   ELSE IF state'.playing THEN audioClock ELSE Null
  /\ UNCHANGED now

Pause ==
  /\ Idle
  /\ Commit(pause(Self, now))
  /\ op' = [name |-> "pause", arg |-> 0]
  /\ UNCHANGED <<now, songClock, seekTarget, audioClock>>

Stop ==
  /\ Idle
  /\ Commit(stop(Self))
  /\ op' = [name |-> "stop", arg |-> 0]
  /\ seekTarget' = Null
  /\ audioClock' = Null
  /\ UNCHANGED <<now, songClock>>

Seek ==
  \E timeMs \in ArgTimes :
    /\ Idle
    /\ Commit(seek(Self, timeMs, now))
    /\ op' = [name |-> "seek", arg |-> timeMs]
    /\ songClock' = IF cdgData # Null /\ Running
                    THEN Clamp(timeMs, state.duration) ELSE songClock
    /\ seekTarget' = IF cdgData # Null
                     THEN Some(Clamp(timeMs, state.duration)) ELSE seekTarget
    /\ audioClock' = IF cdgData # Null /\ audioClock # Null
                     THEN Some(Clamp(timeMs, state.duration)) ELSE audioClock
    /\ UNCHANGED now

SyncToAudioTime ==
  \E audioTimeMs \in ArgTimes :
    /\ Idle
    /\ Commit(syncToAudioTime(Self, audioTimeMs, now))
    /\ op' = [name |-> "syncToAudioTime", arg |-> audioTimeMs]
    /\ songClock' = IF cdgData # Null /\ Running /\ audioTimeMs < state.currentTime - Ms(1000)
                    THEN Clamp(audioTimeMs, state.duration) ELSE songClock
    /\ seekTarget' = IF cdgData # Null /\ Running
                     THEN IF audioTimeMs < state.currentTime - Ms(1000)
                          THEN Some(Clamp(audioTimeMs, state.duration))
                          ELSE IF audioTimeMs >= state.duration THEN Null ELSE seekTarget
                     ELSE seekTarget
    /\ audioClock' = IF cdgData # Null /\ Running
                     THEN IF audioTimeMs < state.currentTime - Ms(1000)
                          THEN Some(Clamp(audioTimeMs, state.duration))
                          ELSE IF audioTimeMs >= state.duration THEN Null
                          ELSE IF audioClock = Null THEN Some(audioTimeMs)
                          ELSE Some(Max(audioClock[1], audioTimeMs))
                     ELSE audioClock
    /\ UNCHANGED now

\* A pending timer fires: the one the handle names, or another one.
Tick ==
  /\ Idle
  /\ timers > 0
  /\ \E named \in {b \in BOOLEAN : IF b THEN animationFrame = "pending"
                                   ELSE timers > (IF animationFrame = "pending" THEN 1 ELSE 0)} :
       Commit(update([Self EXCEPT !.timers = @ - 1,
                                  !.animationFrame = IF named THEN "fired" ELSE @],
                     now))
  /\ op' = [name |-> "tick", arg |-> 0]
  /\ seekTarget' = IF Running THEN Null ELSE seekTarget
  /\ audioClock' = IF state'.playing THEN audioClock ELSE Null
  /\ UNCHANGED <<now, songClock>>

\* Wall-clock time passes.
AdvanceClock ==
  /\ Idle
  /\ now < Epoch + MaxClockSteps * ClockStep
  /\ now' = now + ClockStep
  /\ songClock' = IF Running THEN songClock + ClockStep ELSE songClock
  /\ UNCHANGED <<cdgData, renderer, state, animationFrame, timers, lastUpdateTime,
                 packetIndex, startTime, pauseTime, events, threw, op, seekTarget,
                 audioClock>>
  /\ UNCHANGED bench

\* The call returns to the host.
Return ==
  /\ ~Idle
  /\ op' = IdleOp
  /\ events' = <<>>
  /\ threw' = "none"
  /\ UNCHANGED <<cdgData, renderer, state, animationFrame, timers, lastUpdateTime,
                 packetIndex, startTime, pauseTime, now, songClock, seekTarget,
                 audioClock>>
  /\ UNCHANGED bench

Next ==
  \/ LoadSong
  \/ Play
  \/ Pause
  \/ Stop
  \/ Seek
  \/ SyncToAudioTime
  \/ Tick
  \/ AdvanceClock
  \/ Return

Spec == Init /\ [][Next]_vars

\* ---------------------------------------------- playback left to itself
\* The host prepares a song (loadSong, seek, stop) and calls play(); once the
\* player is playing it makes no further call.  play() is called at the
\* epoch, so that the bounded clock can run past the end of the song.
HostQuiet == state.playing

PrepareLoadSong == ~HostQuiet /\ LoadSong

PrepareSeek == ~HostQuiet /\ Seek

PrepareStop == ~HostQuiet /\ Stop

StartPlay == ~HostQuiet /\ now = Epoch /\ Play

LiveNext ==
  \/ PrepareLoadSong
  \/ PrepareSeek
  \/ PrepareStop
  \/ StartPlay
  \/ Tick
  \/ AdvanceClock
  \/ Return

\* A timer callback can run: no call is running and a timer is pending.
TickEnabled == Idle /\ timers > 0

\* Strong fairness of Tick, SF_vars(Tick), with ENABLED <<Tick>>_vars written
\* as the guard of Tick: a timer that is pending again and again is run.
TickFairness == (<>[]~TickEnabled) \/ []<><<Tick>>_vars

\* Date.now() keeps advancing, a pending setTimeout callback is run, and a
\* call returns.
LiveSpec ==
  /\ Init
  /\ [][LiveNext]_vars
  /\ SF_vars(AdvanceClock)
  /\ TickFairness
  /\ WF_vars(Return)

\* ------------------------------------------------- the renderer on its own
\* Packets (opcode and data bytes, high bits set in places) whose decoded
\* instructions drive the renderer: every instruction type, both tile modes,
\* both scroll modes, and a scroll whose offset fields are 7 and 15; a low
\* colour table starting red, blue, green; a tile at row 0, column 0 with
\* every bit set; and the memory preset again with repeat = 3.
PacketPool ==
  {[instruction |-> INST_MEMORY_PRESET, data |-> Data(<<65, 0>>)],
   [instruction |-> INST_BORDER_PRESET, data |-> Data(<<255>>)],
   [instruction |-> INST_TILE_BLOCK, data |-> Data(<<2, 5, 1, 1>> \o TilePattern)],
   [instruction |-> INST_TILE_BLOCK_XOR, data |-> Data(<<15, 9, 1, 1>> \o TilePattern)],
   [instruction |-> INST_SCROLL_COPY, data |-> Data(<<0, 18, 3>>)],
   [instruction |-> INST_SCROLL_PRESET, data |-> Data(<<6, 39, 31>>)],
   [instruction |-> INST_DEFINE_TRANSPARENT, data |-> Data(<<1>>)],
   [instruction |-> INST_LOAD_COLOR_TABLE_HI,
    data |-> Data(<<63, 63, 60, 0, 3, 48, 0, 15, 21, 42, 0, 0, 0, 0, 4, 16>>)],
   [instruction |-> INST_LOAD_COLOR_TABLE_LO, data |-> Data(<<60, 0, 0, 15, 3, 48>>)],
   [instruction |-> INST_TILE_BLOCK,
    data |-> Data(<<0, 1, 0, 0, 63, 63, 63, 63, 63, 63, 63, 63, 63, 63, 63, 63>>)],
   [instruction |-> INST_MEMORY_PRESET, data |-> Data(<<1, 3>>)]}

\* The instructions parseInstruction makes of them.
DecodedInstructions ==
  {parseInstruction(packet.instruction, packet.data)[1] : packet \in PacketPool}

\* renderer.applyInstruction(inst) on the renderer driven directly.
ApplyInstruction ==
  \E inst \in DecodedInstructions :
    /\ applied < MaxInstructions
    /\ canvas' = applyInstruction(canvas, inst)
    /\ applied' = applied + 1
    /\ UNCHANGED <<cdgData, renderer, state, animationFrame, timers, lastUpdateTime,
                   packetIndex, startTime, pauseTime, now, events, threw, op,
                   songClock, seekTarget, audioClock, fileBuffer, parsedCdg>>

\* renderer.reset() on the renderer driven directly.
Reset ==
  /\ applied > 0
  /\ canvas' = reset(canvas)
  /\ applied' = 0
  /\ UNCHANGED <<cdgData, renderer, state, animationFrame, timers, lastUpdateTime,
                 packetIndex, startTime, pauseTime, now, events, threw, op,
                 songClock, seekTarget, audioClock, fileBuffer, parsedCdg>>

RenderNext ==
  \/ ApplyInstruction
  \/ Reset

RenderSpec == Init /\ [][RenderNext]_vars

\* -------------------------------------------------- the decoder on its own
\* The 16 data bytes of a packet: a mixed pattern, and every byte 0xFF.
PacketData == Data(<<65, 18, 3, 1>> \o TilePattern)
AllOnesData == [k \in 1..16 |-> 255]

\* The command and opcode bytes of a file's first packet: the CDG command
\* with and without high bits and a foreign one; every known opcode, an
\* unknown one, a known one with a high bit set, and 0; and its data bytes.
FirstPackets ==
  {[command |-> c, instruction |-> o, data |-> d] :
     c \in {9, 73, 8}, o \in KnownInstructions \cup {5, INST_TILE_BLOCK + 64, 0},
     d \in {PacketData, AllOnesData}}

\* Those of its second packet: kept, foreign command, unknown opcode.
SecondPackets ==
  {[command |-> 9, instruction |-> INST_MEMORY_PRESET],
   [command |-> 8, instruction |-> INST_MEMORY_PRESET],
   [command |-> 9, instruction |-> 5]}

\* Whole packets in a file, and bytes after the last whole packet.
PacketCounts == {0, 1, 2, 3, 150, 300}
TrailingBytes == {0, 10, 23}

\* A file of n packets and trail more bytes: the first and second packet as
\* given, a tile block as the last one, zero packets between, and trailing
\* bytes that begin like a CDG packet.
MakeBuffer(n, trail, first, second) ==
  [length |-> n * CDG_PACKET_SIZE + trail,
   bytes |->
     (IF n >= 1 THEN PacketBytes(0, first.command, first.instruction, first.data)
      ELSE <<>>)
     @@ (IF n >= 2 THEN PacketBytes(1, second.command, second.instruction, PacketData)
         ELSE <<>>)
     @@ (IF n >= 3 THEN PacketBytes(n - 1, 9, INST_TILE_BLOCK_XOR, PacketData)
         ELSE <<>>)
     @@ [k \in {j \in {n * CDG_PACKET_SIZE, n * CDG_PACKET_SIZE + 1} :
                  j < n * CDG_PACKET_SIZE + trail} |->
           IF k = n * CDG_PACKET_SIZE THEN 9 ELSE INST_MEMORY_PRESET]]

Buffers ==
  {MakeBuffer(n, trail, first, second) :
     n \in PacketCounts, trail \in TrailingBytes,
     first \in FirstPackets, second \in SecondPackets}

\* fs.readFileSync(filePath) returns the file's bytes.
ReadFile ==
  \E content \in Buffers :
    /\ fileBuffer = Null
    /\ fileBuffer' = Some(content)
    /\ UNCHANGED <<cdgData, renderer, state, animationFrame, timers, lastUpdateTime,
                   packetIndex, startTime, pauseTime, now, events, threw, op,
                   songClock, seekTarget, audioClock, canvas, applied, parsedCdg>>

\* The rest of parseCdgFile: the loop over the packets and the return.
ParseCdgFile ==
  /\ fileBuffer # Null
  /\ parsedCdg = Null
  /\ parsedCdg' = Some(ParseBuffer(fileBuffer[1]))
  /\ UNCHANGED <<cdgData, renderer, state, animationFrame, timers, lastUpdateTime,
                 packetIndex, startTime, pauseTime, now, events, threw, op,
                 songClock, seekTarget, audioClock, canvas, applied, fileBuffer>>

DecodeNext ==
  \/ ReadFile
  \/ ParseCdgFile

DecodeSpec == Init /\ [][DecodeNext]_vars

\* ------------------------------------------------------------------ claims
\* The player's own fields (everything but the clock and the record of the call).
player == <<cdgData, renderer, state, animationFrame, timers, lastUpdateTime,
            packetIndex, startTime, pauseTime>>

Emitted(type) == \E i \in DOMAIN events : events[i].type = type

\* The renderer after every instruction of the packets whose timeMs <= t has
\* been applied to rd, in stream order (a filter, not a cursor).
RECURSIVE ApplyAll(_, _, _)
ApplyAll(rd, packets, t) ==
  IF packets = <<>> THEN rd
  ELSE ApplyAll(IF Head(packets).timeMs <= t
                  THEN applyInstruction(rd, Head(packets).instruction)
                  ELSE rd,
                Tail(packets), t)

\* The replay from scratch up to time t, on a fresh renderer.
ReplayFromScratch(packets, t) == ApplyAll(NewRenderer, packets, t)

\* The number of decoded instructions whose timeMs <= t.
CountUpTo(packets, t) ==
  Cardinality({i \in DOMAIN packets : packets[i].timeMs <= t})

\* The visible frame of a renderer agrees with what the call emitted: a
\* 'frame' event with these pixels first, or the read's error thrown.
FrameOf(rd) ==
  LET frame == getVisibleRgbaFrame(rd)
  IN  IF frame.error # "none" THEN threw = frame.error /\ ~Emitted("frame")
      ELSE /\ threw = "none"
           /\ events # <<>>
           /\ events[1].type = "frame"
           /\ events[1].rgba = frame.rgba

\* C1: after seek(t) on a loaded song the renderer, and the frame the seek
\* emits, are those of a fresh renderer to which exactly the instructions with
\* timeMs <= min(max(t, 0), duration) were applied in stream order, whatever
\* was done before the seek.
SeekIsReplayFromScratch ==
  (op.name = "seek" /\ cdgData # Null) =>
    LET target == Clamp(op.arg, state.duration)
        fresh == ReplayFromScratch(cdgData[1].packets, target)
    IN  /\ renderer = fresh
        /\ packetIndex = CountUpTo(cdgData[1].packets, target)
        /\ state.currentTime = target
        /\ FrameOf(fresh)

\* A seek to before the start of the song, on a player that has been playing.
SeekBackWitness ==
  /\ op.name = "seek"
  /\ cdgData # Null
  /\ op.arg < 0
  /\ state.playing
  /\ packetIndex = 1
  /\ Emitted("seek")
  /\ lastUpdateTime > Epoch

\* C2 as stated: after syncToAudioTime(a) on a loaded song the renderer is the
\* one seek(a) produces.
SyncEqualsSeek ==
  (op.name = "syncToAudioTime" /\ cdgData # Null) =>
    renderer = ReplayFromScratch(cdgData[1].packets, Clamp(op.arg, state.duration))

\* C2: syncToAudioTime(a) on a player that is playing and not paused, with a
\* before the end of the song and the cursor not beyond the instructions with
\* timeMs <= max(a, 0), leaves the renderer that seek(a) produces and the
\* cursor after exactly those instructions.
SyncAdvanceEqualsSeek ==
  [][(/\ op'.name = "syncToAudioTime"
      /\ cdgData # Null
      /\ Running
      /\ op'.arg < state.duration
      /\ packetIndex <= CountUpTo(cdgData[1].packets, Max(op'.arg, 0)))
     => /\ renderer' = seek(Self, op'.arg, now).renderer
        /\ renderer' = ReplayFromScratch(cdgData[1].packets, Max(op'.arg, 0))
        /\ packetIndex' = seek(Self, op'.arg, now).packetIndex]_vars

\* A forward sync that applied instructions.
SyncAdvanceWitness ==
  /\ op.name = "syncToAudioTime"
  /\ Running
  /\ state.currentTime = op.arg
  /\ op.arg > 0
  /\ packetIndex > 1
  /\ packetIndex < Len(cdgData[1].packets)

\* C3: while no song has been loaded, play(), pause(), seek(t) and
\* syncToAudioTime(t) change nothing of the player, schedule no tick, emit no
\* event and throw nothing.
UnloadedCallsAreNoOps ==
  [][(cdgData = Null /\ op'.name \in {"play", "pause", "seek", "syncToAudioTime"})
     => /\ UNCHANGED player
        /\ timers' = 0
        /\ events' = <<>>
        /\ threw' = "none"]_vars

\* play() called before any song was loaded.
UnloadedPlayWitness ==
  /\ cdgData = Null
  /\ op.name = "play"
  /\ ~state.playing
  /\ events = <<>>

\* C4 as stated: while no song is loaded, stop() changes no state and emits
\* no event.
UnloadedStopIsSilent ==
  [][(cdgData = Null /\ op'.name = "stop")
     => (UNCHANGED player /\ events' = <<>>)]_vars

\* C4: while no song is loaded, stop() changes nothing of the player and
\* throws nothing, but emits exactly one 'stop' event carrying the unchanged
\* state.
UnloadedStopOnlyEmits ==
  [][(cdgData = Null /\ op'.name = "stop")
     => /\ UNCHANGED player
        /\ threw' = "none"
        /\ events' = <<[type |-> "stop", state |-> state]>>]_vars

\* stop() called before any song was loaded.
UnloadedStopWitness ==
  /\ cdgData = Null
  /\ op.name = "stop"
  /\ Emitted("stop")
  /\ state.duration = 0

\* C5: a loadSong whose file cannot be read throws the read's error to the
\* caller and leaves the player stopped: playing = paused = false, no timer
\* pending, and neither a 'frame' nor a 'play' event emitted by the call.
FailedLoadLeavesStopped ==
  (op.name = "loadSong" /\ op.arg = MissingSong.songId) =>
    /\ threw = "ENOENT"
    /\ ~state.playing
    /\ ~state.paused
    /\ timers = 0
    /\ animationFrame = "null"
    /\ ~Emitted("frame")
    /\ ~Emitted("play")

\* A failed load on a player that had a song and had been playing it.
FailedLoadWitness ==
  /\ op.name = "loadSong"
  /\ threw = "ENOENT"
  /\ cdgData # Null
  /\ lastUpdateTime > 0

\* C6: in every state in which the player is stopped or paused no timer
\* callback is pending and the handle is cleared, so no tick can run (and emit
\* 'frame', 'update' or 'ended') before the next play().
NoTimerWhenStoppedOrPaused ==
  (~state.playing \/ state.paused) => (timers = 0 /\ animationFrame = "null")

\* pause() has returned on a player whose tick had rescheduled itself.
PausedAfterTickWitness ==
  /\ op.name = "pause"
  /\ state.paused
  /\ Emitted("pause")
  /\ state.currentTime > 0
  /\ timers = 0

\* C7: at most one timer callback is pending, it is the one the handle names
\* and the player is then playing and not paused; a tick, which takes its
\* timer off the queue, therefore runs with none pending.
AtMostOneTimer ==
  /\ timers <= 1
  /\ timers = 1 => (animationFrame = "pending" /\ Running)

\* A tick has run and scheduled the next one.
TickRescheduledWitness ==
  /\ op.name = "tick"
  /\ timers = 1
  /\ animationFrame = "pending"
  /\ Emitted("frame")

\* C8: paused implies playing, so (playing, paused) is one of (false, false),
\* (true, false), (true, true); pause() on a player that is not playing and
\* unpaused changes nothing; play() on a player that is playing and unpaused
\* changes nothing, schedules no timer and emits no event; and playing turns
\* false only in stop(), in loadSong() or in a call that reached the end of
\* the song (it emits 'ended').
PlayPauseMachine ==
  [][/\ state'.paused => state'.playing
     /\ (op'.name = "pause" /\ ~Running)
          => (UNCHANGED player /\ events' = <<>>)
     /\ (op'.name = "play" /\ Running)
          => (UNCHANGED player /\ events' = <<>> /\ threw' = "none")
     /\ (state.playing /\ ~state'.playing)
          => \/ op'.name \in {"stop", "loadSong"}
             \/ \E i \in DOMAIN events' : events'[i].type = "ended"]_vars

\* play() has returned without effect on a player that was already playing.
PlayWhilePlayingWitness ==
  /\ op.name = "play"
  /\ Running
  /\ events = <<>>
  /\ threw = "none"
  /\ timers = 1

\* C9: while the player is playing and not paused, the elapsed time a tick
\* computes, now - startTime, is the song time that has passed while it was
\* playing and not paused since the song was last anchored: the time spent
\* paused is not in it, for every pause length and any number of pauses.
PauseConsumesNoSongTime ==
  Running => now - startTime = songClock

\* A resume after a pause of non-zero length that began at a non-zero elapsed time.
ResumedWitness ==
  /\ op.name = "play"
  /\ Running
  /\ Emitted("play")
  /\ songClock > 0
  /\ now > pauseTime
  /\ pauseTime > startTime - (now - pauseTime)

\* C10: stop() on a loaded song leaves the renderer in its initial state (all
\* pixels 0, palette all black, no transparent index, offsets 0), the cursor
\* at 0, currentTime = 0 and playing = paused = false, changes no other field
\* of the state, clears the timer and emits exactly one 'stop' event with the
\* state it left.
StopResetsLoadedSong ==
  [][(cdgData # Null /\ op'.name = "stop")
     => /\ \A i \in DOMAIN renderer'.pixels : renderer'.pixels[i] = 0
        /\ \A c \in DOMAIN renderer'.palette :
             renderer'.palette[c] = [r |-> 0, g |-> 0, b |-> 0]
        /\ renderer'.transparentColor = -1
        /\ renderer'.borderColor = 0
        /\ renderer'.hOffset = 0
        /\ renderer'.vOffset = 0
        /\ packetIndex' = 0
        /\ state' = [state EXCEPT !.playing = FALSE, !.paused = FALSE,
                                  !.currentTime = 0]
        /\ timers' = 0
        /\ cdgData' = cdgData
        /\ threw' = "none"
        /\ events' = <<[type |-> "stop", state |-> state']>>]_vars

\* stop() has returned on a song that had been played and paused.
StopLoadedWitness ==
  /\ op.name = "stop"
  /\ cdgData # Null
  /\ state.duration > 0
  /\ pauseTime > Epoch
  /\ Emitted("stop")

\* C11 as stated: seek(t) on a loaded song sets currentTime to
\* min(max(t, 0), duration), emits exactly one 'frame' event with that
\* timestamp and then the 'seek' event with that time, and leaves playing and
\* paused as they were.
SeekClampsAndEmits ==
  [][(cdgData # Null /\ op'.name = "seek")
     => LET target == Min(Max(op'.arg, 0), state.duration)
        IN  /\ state'.currentTime = target
            /\ Len(events') = 2
            /\ events'[1].type = "frame"
            /\ events'[1].timestamp = target
            /\ events'[2].type = "seek"
            /\ events'[2].timeMs = target
            /\ state'.playing = state.playing
            /\ state'.paused = state.paused]_vars

\* The instructions the cursor has not passed yet: the packets after index.
NotYetApplied(packets, index) == SubSeq(packets, index + 1, Len(packets))

\* C12 as stated: syncToAudioTime(a) on a player that is playing and not
\* paused is seek(a) when a < currentTime - 1000; leaves renderer and cursor
\* unchanged when currentTime - 1000 <= a <= currentTime; and when
\* a > currentTime leaves the renderer with just the not-yet-applied
\* instructions of timeMs <= a applied on top, without a reset.
SyncThreeWays ==
  [][(cdgData # Null /\ Running /\ op'.name = "syncToAudioTime")
     => LET a == op'.arg
            cur == state.currentTime
            rest == NotYetApplied(cdgData[1].packets, packetIndex)
        IN  /\ a < cur - Ms(1000) => Commit(seek(Self, a, now))
            /\ (cur - Ms(1000) <= a /\ a <= cur)
                 => (renderer' = renderer /\ packetIndex' = packetIndex)
            /\ a > cur
                 => /\ renderer' = ApplyAll(renderer, rest, a)
                    /\ packetIndex' = packetIndex + CountUpTo(rest, a)]_vars

\* C12: the three ways hold for a < duration; for a >= currentTime - 1000 and
\* a >= duration the call ends in stop(), which resets the renderer and puts
\* the cursor at 0.
SyncThreeWaysBeforeEnd ==
  [][(cdgData # Null /\ Running /\ op'.name = "syncToAudioTime")
     => LET a == op'.arg
            cur == state.currentTime
            rest == NotYetApplied(cdgData[1].packets, packetIndex)
        IN  /\ a < cur - Ms(1000) => Commit(seek(Self, a, now))
            /\ (cur - Ms(1000) <= a /\ a <= cur /\ a < state.duration)
                 => (renderer' = renderer /\ packetIndex' = packetIndex)
            /\ (a > cur /\ a < state.duration)
                 => /\ renderer' = ApplyAll(renderer, rest, a)
                    /\ packetIndex' = packetIndex + CountUpTo(rest, a)
            /\ (a >= cur - Ms(1000) /\ a >= state.duration)
                 => (renderer' = NewRenderer /\ packetIndex' = 0)]_vars

\* A sync a little behind currentTime has kept the instructions applied so far.
SyncJitterWitness ==
  /\ op.name = "syncToAudioTime"
  /\ Running
  /\ state.currentTime = op.arg
  /\ op.arg < 0
  /\ packetIndex > 1

\* C13 as stated: syncToAudioTime(a) on a player that is playing and not
\* paused, with a >= duration stops the player (playing = paused = false,
\* currentTime = 0, no timer) and emits 'ended'; with a < duration it emits
\* no 'ended' and sets currentTime to a.
SyncEndsAtDuration ==
  [][(cdgData # Null /\ Running /\ op'.name = "syncToAudioTime")
     => IF op'.arg >= state.duration
        THEN /\ ~state'.playing
             /\ ~state'.paused
             /\ state'.currentTime = 0
             /\ timers' = 0
             /\ \E i \in DOMAIN events' : events'[i].type = "ended"
        ELSE /\ \A i \in DOMAIN events' : events'[i].type # "ended"
             /\ state'.currentTime = op'.arg]_vars

\* C13: that holds for a >= currentTime - 1000; for a < currentTime - 1000
\* the call is a seek: it emits no 'ended', keeps playing and sets
\* currentTime to min(max(a, 0), duration).
SyncEndsUnlessReseek ==
  [][(cdgData # Null /\ Running /\ op'.name = "syncToAudioTime")
     => IF op'.arg < state.currentTime - Ms(1000)
        THEN /\ \A i \in DOMAIN events' : events'[i].type # "ended"
             /\ state'.playing
             /\ state'.currentTime = Min(Max(op'.arg, 0), state.duration)
        ELSE IF op'.arg >= state.duration
        THEN /\ ~state'.playing
             /\ ~state'.paused
             /\ state'.currentTime = 0
             /\ timers' = 0
             /\ animationFrame' = "null"
             /\ events'[Len(events')].type = "ended"
        ELSE /\ \A i \in DOMAIN events' : events'[i].type # "ended"
             /\ state'.currentTime = op'.arg]_vars

\* A sync past the end of the song has stopped the player.
SyncEndedWitness ==
  /\ op.name = "syncToAudioTime"
  /\ op.arg >= state.duration
  /\ state.duration > 0
  /\ Emitted("ended")
  /\ Emitted("stop")
  /\ ~state.playing

\* C14: a loadSong that returns without an error leaves playing = paused =
\* false, currentTime = 0, duration = the decoded durationMs, no timer, the
\* renderer that of a fresh renderer with exactly the instructions of
\* timeMs <= 0 applied, the cursor after those instructions, and has emitted
\* exactly one 'frame' event.
LoadSongStartsAfresh ==
  [][(op'.name = "loadSong" /\ threw' = "none")
     => LET song == CHOOSE sg \in Songs : sg.songId = op'.arg
            decoded == ParseBuffer(FileSystem[song.cdgPath])
        IN  /\ cdgData' = Some(decoded)
            /\ state' = [playing |-> FALSE, paused |-> FALSE, currentTime |-> 0,
                         duration |-> decoded.durationMs, title |-> song.title,
                         singerName |-> song.singerName, songId |-> song.songId,
                         fileType |-> "cdg", audioPath |-> song.audioPath]
            /\ timers' = 0
            /\ animationFrame' = "null"
            /\ renderer' = ReplayFromScratch(decoded.packets, 0)
            /\ packetIndex' = CountUpTo(decoded.packets, 0)
            /\ Cardinality({i \in DOMAIN events' : events'[i].type = "frame"}) = 1
            /\ events'[Len(events')].timestamp = 0]_vars

\* A song has been loaded over one that had been played.
LoadOverPlayedWitness ==
  /\ op.name = "loadSong"
  /\ threw = "none"
  /\ Emitted("frame")
  /\ packetIndex > 0
  /\ lastUpdateTime > 0

\* C15: in every state of a renderer reached from reset() by decoded
\* instructions, every cell of the pixel grid holds a value in 0..15.
PixelsAreColourIndices ==
  \A i \in DOMAIN canvas.pixels : canvas.pixels[i] \in 0..15

\* A tile has been XORed onto cells a memory preset had filled.
XoredCellsWitness ==
  /\ applied >= 2
  /\ \E i \in DOMAIN canvas.pixels : canvas.pixels[i] = 14
  /\ \E i \in DOMAIN canvas.pixels : canvas.pixels[i] = 8

\* C16 as stated: in every state of a renderer reached by decoded
\* instructions the horizontal offset is in 0..5 and the vertical offset is
\* in 0..11.
OffsetsWithinTile ==
  /\ canvas.hOffset \in 0..(CDG_TILE_WIDTH - 1)
  /\ canvas.vOffset \in 0..(CDG_TILE_HEIGHT - 1)

\* C17 as stated: in every state of a renderer reached by decoded
\* instructions the window getVisibleRgbaFrame reads lies inside the buffer
\* (every srcX < CDG_WIDTH and every srcY < CDG_HEIGHT), and the read does
\* not fail.
VisibleWindowInsideBuffer ==
  /\ \A x \in 0..(CDG_VISIBLE_WIDTH - 1) : x + CDG_BORDER_X + canvas.hOffset < CDG_WIDTH
  /\ \A y \in 0..(CDG_VISIBLE_HEIGHT - 1) : y + CDG_BORDER_Y + canvas.vOffset < CDG_HEIGHT
  /\ getVisibleRgbaFrame(canvas).error = "none"

\* The ordinals of the whole packets of a file whose byte 0 masked with
\* 0x3F is 0x09 and whose byte 1 masked with 0x3F is a known opcode.
KeptOrdinals(content) ==
  {i \in 0..((content.length \div 24) - 1) :
     /\ BitAnd(ByteAt(content, 24 * i), 63) = 9
     /\ BitAnd(ByteAt(content, 24 * i + 1), 63) \in {1, 2, 6, 20, 24, 28, 30, 31, 38}}

\* The k-th smallest of a set of ordinals.
KthOrdinal(ordinals, k) ==
  CHOOSE i \in ordinals : Cardinality({j \in ordinals : j < i}) = k - 1

\* The instruction variant an opcode stands for.
VariantOf(opcode, inst) ==
  CASE opcode = 1 -> inst.type = "memoryPreset"
    [] opcode = 2 -> inst.type = "borderPreset"
    [] opcode = 6 -> inst.type = "tileBlock" /\ ~inst.xor
    [] opcode = 38 -> inst.type = "tileBlock" /\ inst.xor
    [] opcode = 20 -> inst.type = "scroll" /\ ~inst.copy
    [] opcode = 24 -> inst.type = "scroll" /\ inst.copy
    [] opcode = 28 -> inst.type = "defineTransparent"
    [] opcode = 30 -> inst.type = "loadColorTable" /\ inst.offset = 0
    [] opcode = 31 -> inst.type = "loadColorTable" /\ inst.offset = 8

\* C18: parseCdgFile returns one instruction for each whole packet whose
\* command and opcode, masked with 0x3F, are 0x09 and a known opcode, of the
\* variant the opcode stands for, in stream order, and nothing for any other
\* packet.
DecodeKeepsKnownPackets ==
  parsedCdg # Null =>
    LET content == fileBuffer[1]
        packets == parsedCdg[1].packets
        kept == KeptOrdinals(content)
    IN  /\ Len(packets) = Cardinality(kept)
        /\ \A k \in DOMAIN packets :
             VariantOf(BitAnd(ByteAt(content, 24 * KthOrdinal(kept, k) + 1), 63),
                       packets[k].instruction)

\* A file decoded to two instructions out of three packets, the first of
\* them with high bits set in its command byte.
DecodeFilteredWitness ==
  /\ parsedCdg # Null
  /\ fileBuffer[1].length = 3 * 24
  /\ ByteAt(fileBuffer[1], 0) = 73
  /\ ByteAt(fileBuffer[1], 24) = 8
  /\ Len(parsedCdg[1].packets) = 2

\* C19: the instruction decoded from the packet at ordinal i carries
\* timeMs = i / 300 * 1000 however many earlier packets were dropped; the
\* list is strictly increasing in timeMs and every timeMs is < durationMs.
TimeFromOrdinal ==
  parsedCdg # Null =>
    LET packets == parsedCdg[1].packets
        kept == KeptOrdinals(fileBuffer[1])
    IN  /\ \A k \in DOMAIN packets :
             packets[k].timeMs * 300 = KthOrdinal(kept, k) * Ms(1000)
        /\ \A k \in DOMAIN packets :
             k > 1 => packets[k - 1].timeMs < packets[k].timeMs
        /\ \A k \in DOMAIN packets : packets[k].timeMs < parsedCdg[1].durationMs

\* The second instruction of a file comes from its 300th packet, the
\* second packet having been dropped.
TimeAfterDroppedWitness ==
  /\ parsedCdg # Null
  /\ Len(parsedCdg[1].packets) = 2
  /\ parsedCdg[1].packets[2].timeMs * 300 = 299 * Ms(1000)
  /\ BitAnd(ByteAt(fileBuffer[1], 24), 63) # 9

\* The whole packets of a file, without the bytes after them.
WholePackets(content) ==
  LET whole == (content.length \div 24) * 24
  IN  [length |-> whole,
       bytes |-> [k \in {j \in DOMAIN content.bytes : j < whole} |-> content.bytes[k]]]

\* C20: durationMs = floor(byteLength / 24) / 300 * 1000; 300 * 24 bytes
\* give 1000 ms and 150 * 24 bytes 500 ms; the bytes after the last whole
\* packet change neither the duration nor the instruction list.
DurationFromLength ==
  parsedCdg # Null =>
    LET content == fileBuffer[1]
    IN  /\ parsedCdg[1].durationMs * 300 = (content.length \div 24) * Ms(1000)
        /\ content.length = 300 * 24 => parsedCdg[1].durationMs = Ms(1000)
        /\ content.length = 150 * 24 => parsedCdg[1].durationMs = Ms(500)
        /\ parsedCdg[1] = ParseBuffer(WholePackets(content))

\* A file of 300 packets and 10 more bytes has been decoded.
TrailingBytesWitness ==
  /\ parsedCdg # Null
  /\ fileBuffer[1].length = 300 * 24 + 10
  /\ ByteAt(fileBuffer[1], 300 * 24) = 9
  /\ parsedCdg[1].durationMs = Ms(1000)

\* The colour index fields of an instruction are in 0..15.
ColorsInRange(inst) ==
  CASE inst.type \in {"memoryPreset", "borderPreset", "scroll", "defineTransparent"} ->
         inst.color \in 0..15
    [] inst.type = "tileBlock" -> inst.color0 \in 0..15 /\ inst.color1 \in 0..15
    [] inst.type = "loadColorTable" -> TRUE

\* The other fields of an instruction are in the given ranges: tile rows up
\* to maxRow, scroll commands up to maxScroll.
FieldsInRange(inst, maxRow, maxScroll) ==
  CASE inst.type = "memoryPreset" -> inst.repeat \in 0..15
    [] inst.type = "tileBlock" ->
         /\ inst.row \in 0..maxRow
         /\ inst.column \in 0..63
         /\ DOMAIN inst.pixels = 1..12
         /\ \A k \in 1..12 : inst.pixels[k] \in 0..63
    [] inst.type = "scroll" ->
         /\ inst.hScroll \in 0..maxScroll
         /\ inst.vScroll \in 0..maxScroll
         /\ inst.hOffset \in 0..7
         /\ inst.vOffset \in 0..15
    [] inst.type = "loadColorTable" ->
         /\ inst.offset \in {0, 8}
         /\ DOMAIN inst.colors = 1..8
    [] inst.type \in {"borderPreset", "defineTransparent"} -> TRUE

FrameIsUniform(frame, rgba) ==
  \A cell \in 0..(CDG_WIDTH * CDG_HEIGHT - 1) :
    \A c \in 0..3 : frame[cell * 4 + c] = rgba[c + 1]

\* C22: from any renderer state, reset() followed by getRgbaFrame() yields
\* (0,0,0,255) at every pixel: every cell is index 0, all 16 palette entries
\* are black, the transparent marker is none (-1) and both offsets are 0.
ResetYieldsBlackFrame ==
  LET rd == reset(canvas)
  IN  /\ FrameIsUniform(getRgbaFrame(rd), <<0, 0, 0, 255>>)
      /\ \A i \in DOMAIN rd.pixels : rd.pixels[i] = 0
      /\ DOMAIN rd.palette = 0..15
      /\ \A k \in 0..15 : rd.palette[k] = [r |-> 0, g |-> 0, b |-> 0]
      /\ rd.transparentColor = -1
      /\ rd.hOffset = 0
      /\ rd.vOffset = 0

\* The renderer to reset has coloured cells of index 0 that are not black, a
\* transparent index and both offsets set.
ResetDirtyWitness ==
  /\ canvas.palette[0] # [r |-> 0, g |-> 0, b |-> 0]
  /\ canvas.transparentColor # -1
  /\ canvas.hOffset # 0
  /\ canvas.vOffset # 0
  /\ \E i \in DOMAIN canvas.pixels : canvas.pixels[i] = 0

\* MemoryPreset{color, repeat = 0} as the decoder delivers it.
MemoryPreset(color) == parseInstruction(INST_MEMORY_PRESET, Data(<<color, 0>>))[1]

\* C23: from any renderer state, MemoryPreset{color = c, repeat = 0} makes
\* getRgbaFrame() return palette[c] at every pixel of the buffer, with alpha
\* 255 unless c is the transparent index; and LoadColorTable{offset = 0,
\* colors} followed by MemoryPreset{color = 0} yields colors[0] everywhere.
MemoryPresetFillsFrame ==
  /\ \A c \in 0..15 :
       FrameIsUniform(getRgbaFrame(applyInstruction(canvas, MemoryPreset(c))),
                      <<canvas.palette[c].r, canvas.palette[c].g, canvas.palette[c].b,
                        IF c = canvas.transparentColor THEN 0 ELSE 255>>)
  /\ \A table \in DecodedInstructions :
       (table.type = "loadColorTable" /\ table.offset = 0) =>
         FrameIsUniform(
           getRgbaFrame(applyInstruction(applyInstruction(canvas, table), MemoryPreset(0))),
           <<table.colors[1].r, table.colors[1].g, table.colors[1].b,
             IF canvas.transparentColor = 0 THEN 0 ELSE 255>>)

\* The renderer to clear holds cells of several indices, a palette whose
\* entries differ, and a transparent index.
PresetOverDrawingWitness ==
  /\ \E i, j \in DOMAIN canvas.pixels : canvas.pixels[i] # canvas.pixels[j]
  /\ canvas.palette[0] # canvas.palette[1]
  /\ canvas.transparentColor \in 0..15

\* XOR tiles as the decoder delivers them: those of the packet pool and
\* tiles of other colours, rows and columns, some outside the buffer.
XorTiles ==
  {inst \in DecodedInstructions : inst.type = "tileBlock" /\ inst.xor}
  \cup {parseInstruction(INST_TILE_BLOCK_XOR, Data(<<c.color0, c.color1, row, column>> \o mask))[1] :
          c \in {[color0 |-> 0, color1 |-> 15], [color0 |-> 7, color1 |-> 7],
                 [color0 |-> 10, color1 |-> 5]},
          row \in {0, 2, TilesDown + 1, TilesDown + 2, 31},
          column \in {0, 1, TilesAcross + 1, TilesAcross + 2, 63},
          mask \in {TilePattern, [k \in 1..12 |-> 63], [k \in 1..12 |-> 0]}}

\* C24: for every renderer state and every XOR tile, applying the tile twice
\* in a row restores the pixel grid exactly, whether the bounds guard draws
\* the tile or rejects it.
DoubleXorRestores ==
  \A tile \in XorTiles :
    applyInstruction(applyInstruction(canvas, tile), tile).pixels = canvas.pixels

\* The grid holds cells of several indices, one XOR tile changes it and
\* another is rejected by the bounds guard.
XorOverDrawingWitness ==
  /\ \E i, j \in DOMAIN canvas.pixels : canvas.pixels[i] # canvas.pixels[j]
  /\ \E tile \in XorTiles : applyInstruction(canvas, tile).pixels # canvas.pixels
  /\ \E tile \in XorTiles :
       /\ tile.row * CDG_TILE_HEIGHT + CDG_TILE_HEIGHT > CDG_HEIGHT
       /\ applyInstruction(canvas, tile).pixels = canvas.pixels

\* The stream MemoryPreset(color = 1, repeat = 0); LoadColorTable(offset = 0,
\* colors = red, blue, green, 5 black); TileBlock(color0 = 0, color1 = 1,
\* row = 0, column = 0, pixels = 0x3F x 12), as the decoder delivers it.
ScenarioStream ==
  <<parseInstruction(INST_MEMORY_PRESET, Data(<<65, 0>>))[1],
    parseInstruction(INST_LOAD_COLOR_TABLE_LO, Data(<<60, 0, 0, 15, 3, 48>>))[1],
    parseInstruction(INST_TILE_BLOCK,
                     Data(<<0, 1, 0, 0, 63, 63, 63, 63, 63, 63, 63, 63, 63, 63, 63, 63>>))[1]>>

\* The renderer after the full replay of the stream on a fresh renderer.
ScenarioReplay ==
  applyInstruction(applyInstruction(applyInstruction(NewRenderer, ScenarioStream[1]),
                                    ScenarioStream[2]),
                   ScenarioStream[3])

\* The four bytes of pixel (x, y) of the visible frame.
VisiblePixel(rd, x, y) ==
  LET frame == getVisibleRgbaFrame(rd)
      k == (y * CDG_VISIBLE_WIDTH + x) * 4
  IN  <<frame.rgba[k], frame.rgba[k + 1], frame.rgba[k + 2], frame.rgba[k + 3]>>

\* The four bytes of an opaque cell of a palette colour.
Opaque(color) == <<color.r, color.g, color.b, 255>>

\* The replay of the stream has just finished on the renderer.
ScenarioReplayed == applied = Len(ScenarioStream) /\ canvas = ScenarioReplay

\* C25 as stated: after the replay, pixel (0,0) of the visible frame is the
\* palette colour at index 1, which is the loaded red (255,0,0), and a
\* pixel far from the tile is the colour of palette index 1.
ScenarioShowsLoadedRed ==
  ScenarioReplayed =>
    /\ VisiblePixel(canvas, 0, 0) = Opaque(canvas.palette[1])
    /\ VisiblePixel(canvas, 0, 0) = <<255, 0, 0, 255>>
    /\ VisiblePixel(canvas, CDG_VISIBLE_WIDTH - 1, CDG_VISIBLE_HEIGHT - 1)
         = Opaque(canvas.palette[1])

\* C25: after the replay, pixel (0,0) of the visible frame and a pixel far
\* from the tile are both the palette colour at index 1, which is the
\* second colour of the loaded table; the loaded red is palette index 0,
\* which no cell holds, and the tile at row 0, column 0 lies in the border,
\* outside the visible frame, where it leaves index 1 in place.
ScenarioShowsSecondColour ==
  ScenarioReplayed =>
    /\ VisiblePixel(canvas, 0, 0) = Opaque(canvas.palette[1])
    /\ VisiblePixel(canvas, CDG_VISIBLE_WIDTH - 1, CDG_VISIBLE_HEIGHT - 1)
         = Opaque(canvas.palette[1])
    /\ canvas.palette[1] = ScenarioStream[2].colors[2]
    /\ canvas.palette[0] = [r |-> 255, g |-> 0, b |-> 0]
    /\ \A i \in DOMAIN canvas.pixels : canvas.pixels[i] = 1
    /\ \A x \in 0..(CDG_TILE_WIDTH - 1), y \in 0..(CDG_TILE_HEIGHT - 1) : InBorder(x, y)

\* The stream has been replayed and its second colour is not red.
ScenarioWitness ==
  /\ ScenarioReplayed
  /\ ScenarioStream[2].colors[1] = [r |-> 255, g |-> 0, b |-> 0]
  /\ ScenarioStream[2].colors[2] = [r |-> 0, g |-> 0, b |-> 255]

\* The memory presets of the pool that are repeats (repeat # 0).
RepeatedPresets ==
  {inst \in DecodedInstructions : inst.type = "memoryPreset" /\ inst.repeat # 0}

\* C26 as stated: whatever instructions came before, the renderer that
\* clears only when repeat = 0 and one that clears on every MemoryPreset
\* reach the same pixel grid and frame with the next instruction.
RepeatGuardInvisible ==
  \A inst \in DecodedInstructions :
    /\ applyInstruction(canvas, inst).pixels
         = applyInstruction_clearAlways(canvas, inst).pixels
    /\ getRgbaFrame(applyInstruction(canvas, inst))
         = getRgbaFrame(applyInstruction_clearAlways(canvas, inst))

\* C26: the two renderers agree on every instruction but a MemoryPreset
\* with repeat # 0; that one leaves the guarded renderer unchanged, and the
\* renderer that clears always agrees with it exactly when every cell
\* already holds the preset's colour.
RepeatGuardKeepsDrawing ==
  \A inst \in DecodedInstructions :
    IF inst \in RepeatedPresets
    THEN /\ applyInstruction(canvas, inst) = canvas
         /\ (applyInstruction_clearAlways(canvas, inst).pixels = canvas.pixels)
              <=> (\A i \in DOMAIN canvas.pixels : canvas.pixels[i] = inst.color)
    ELSE applyInstruction(canvas, inst) = applyInstruction_clearAlways(canvas, inst)

\* A repeated preset arrives over a drawing: cells of several indices, which
\* clearing would wipe.
RepeatOverDrawingWitness ==
  /\ applied > 0
  /\ \E i, j \in DOMAIN canvas.pixels : canvas.pixels[i] # canvas.pixels[j]
  /\ \E inst \in RepeatedPresets :
       applyInstruction_clearAlways(canvas, inst).pixels # canvas.pixels

\* The renderer after the instructions of packets from + 1 .. to have been
\* applied to rd, in stream order and each once.
RECURSIVE ApplyRange(_, _, _, _)
ApplyRange(rd, packets, from, to) ==
  IF to <= from THEN rd
  ELSE applyInstruction(ApplyRange(rd, packets, from, to - 1), packets[to].instruction)

\* The step runs a handler that resets the renderer of a loaded song: stop
\* (called by the host, by loadSong or at the end of the song), seek, or the
\* reseek of syncToAudioTime.
ResetInStep ==
  /\ cdgData # Null
  /\ \/ op'.name \in {"stop", "loadSong", "seek"}
     \/ \E i \in DOMAIN events' : events'[i].type = "stop"
     \/ (op'.name = "syncToAudioTime" /\ Running /\ op'.arg < state.currentTime - Ms(1000))

\* C28: with a song loaded, the renderer is a fresh renderer to which the
\* first `cursor` instructions of the decoded list were applied, in stream
\* order and each exactly once; a step without a renderer reset never lowers
\* the cursor and applies just the instructions the cursor passes; and a
\* stop on a loaded song leaves the cursor at 0 and the renderer fresh.
RendererIsCursorPrefix ==
  [][cdgData' # Null =>
       /\ packetIndex' \in 0..Len(cdgData'[1].packets)
       /\ renderer' = ApplyRange(NewRenderer, cdgData'[1].packets, 0, packetIndex')
       /\ (cdgData' = cdgData /\ ~ResetInStep) =>
            /\ packetIndex' >= packetIndex
            /\ renderer' = ApplyRange(renderer, cdgData[1].packets, packetIndex, packetIndex')
       /\ (cdgData # Null /\ op'.name = "stop") =>
            packetIndex' = 0 /\ renderer' = NewRenderer]_vars

\* A tick has left the cursor past the instructions of time 0 but not past
\* all of them, on a renderer that is not fresh.
CursorAdvancedWitness ==
  /\ cdgData # Null
  /\ op.name = "tick"
  /\ packetIndex > CountUpTo(cdgData[1].packets, 0)
  /\ packetIndex < Len(cdgData[1].packets)
  /\ renderer # NewRenderer

\* The cursor stands after exactly the instructions of timeMs <= currentTime.
InLockStep ==
  packetIndex = CountUpTo(cdgData[1].packets, state.currentTime)

\* C29 as stated: whenever a song is loaded and no call is running, the
\* cursor equals the number of decoded instructions whose timeMs <=
\* currentTime.
CursorInLockStep ==
  (cdgData # Null /\ Idle) => InLockStep

\* C29: with a song loaded, the cursor is never behind currentTime except
\* in the state stop() leaves (stopped, currentTime 0, cursor 0, fresh
\* renderer, the instructions of time 0 not applied); it may be ahead of
\* currentTime; and it equals the count right after a loadSong that
\* succeeded and after every seek.
CursorNotBehindClock ==
  [][cdgData' # Null =>
       /\ \/ packetIndex' >= CountUpTo(cdgData'[1].packets, state'.currentTime)
          \/ /\ ~state'.playing
             /\ state'.currentTime = 0
             /\ packetIndex' = 0
             /\ renderer' = NewRenderer
       /\ (op'.name = "loadSong" /\ threw' = "none") => InLockStep'
       /\ (op'.name = "seek" /\ cdgData # Null) => InLockStep']_vars

\* A syncToAudioTime has lowered currentTime and left the cursor ahead of it.
CursorAheadWitness ==
  /\ cdgData # Null
  /\ op.name = "syncToAudioTime"
  /\ Running
  /\ packetIndex > CountUpTo(cdgData[1].packets, state.currentTime)

\* The step runs the timer callback on a running player: a tick, or the
\* first update of the loop play() starts.
UpdateRuns ==
  \/ op'.name = "tick" /\ Running
  \/ op'.name = "play" /\ cdgData # Null /\ ~Running

\* C30: after seek(t) on a loaded song, made while playing, paused or
\* stopped, the first tick once playback is running again reports a
\* currentTime >= min(max(t, 0), duration): the frame it emits carries such
\* a timestamp and, while the player keeps playing, so does its state.
FirstTickFromSeekPoint ==
  [][(seekTarget # Null /\ UpdateRuns) =>
       /\ \A i \in DOMAIN events' :
            events'[i].type = "frame" => events'[i].timestamp >= seekTarget[1]
       /\ (state'.playing /\ ~state'.paused) => state'.currentTime >= seekTarget[1]]_vars

\* The call that has just run stopped the player at the end of the song:
\* 'ended' emitted once, not playing, currentTime 0, a fresh renderer, the
\* cursor at 0 and no tick scheduled.
EndedOnce ==
  /\ Cardinality({i \in DOMAIN events : events[i].type = "ended"}) = 1
  /\ ~state.playing
  /\ state.currentTime = 0
  /\ renderer = NewRenderer
  /\ packetIndex = 0
  /\ timers = 0
  /\ animationFrame = "null"

\* C27: once play() has set a loaded song playing and the host makes no
\* further call, with time advancing and pending timers firing, the player
\* eventually stops at the end of the song and emits 'ended' once; until
\* then no tick lowers currentTime.
PlaybackRunsToEnd ==
  /\ (cdgData # Null /\ Running) ~> EndedOnce
  /\ [][(op'.name = "tick" /\ Running /\ state'.playing)
          => state'.currentTime >= state.currentTime]_vars

\* Tiles of both modes as the decoder delivers them: those of the packet
\* pool and tiles of other rows and columns, on and past the last row and
\* column of the buffer.
Tiles ==
  {inst \in DecodedInstructions : inst.type = "tileBlock"}
  \cup {parseInstruction(opcode, Data(<<9, 6, row, column>> \o TilePattern))[1] :
          opcode \in {INST_TILE_BLOCK, INST_TILE_BLOCK_XOR},
          row \in {0, TilesDown - 1, TilesDown, 31},
          column \in {0, TilesAcross - 1, TilesAcross, 63}}

\* The bounding box of the tile exceeds the grid.
OutOfBounds(tile) ==
  \/ tile.column * CDG_TILE_WIDTH + CDG_TILE_WIDTH > CDG_WIDTH
  \/ tile.row * CDG_TILE_HEIGHT + CDG_TILE_HEIGHT > CDG_HEIGHT

\* Cell i lies in the 6 x 12 box of the tile.
InTile(tile, i) ==
  LET x == i % CDG_WIDTH
      y == i \div CDG_WIDTH
  IN  /\ x >= tile.column * CDG_TILE_WIDTH
      /\ x < tile.column * CDG_TILE_WIDTH + CDG_TILE_WIDTH
      /\ y >= tile.row * CDG_TILE_HEIGHT
      /\ y < tile.row * CDG_TILE_HEIGHT + CDG_TILE_HEIGHT

\* C36: a TileBlock whose bounding box exceeds the grid (column >= tiles
\* across or row >= tiles down) leaves the whole renderer unchanged; one
\* inside the grid changes at most the 72 cells of its box and neither the
\* palette, the transparent index, the border colour nor the offsets.
TileStaysInItsBox ==
  \A tile \in Tiles :
    LET after == applyInstruction(canvas, tile)
    IN  /\ OutOfBounds(tile) <=>
             (tile.column >= TilesAcross \/ tile.row >= TilesDown)
        /\ OutOfBounds(tile) => after = canvas
        /\ [after EXCEPT !.pixels = canvas.pixels] = canvas
        /\ DOMAIN after.pixels = DOMAIN canvas.pixels
        /\ \A i \in DOMAIN canvas.pixels :
             after.pixels[i] # canvas.pixels[i] => InTile(tile, i)
        /\ Cardinality({i \in DOMAIN canvas.pixels : InTile(tile, i)}) <= 72

\* On a grid that holds a drawing, a tile inside the grid changes cells and
\* a tile on the first column past the grid is rejected.
TileOverDrawingWitness ==
  /\ applied > 0
  /\ \E i, j \in DOMAIN canvas.pixels : canvas.pixels[i] # canvas.pixels[j]
  /\ \E tile \in Tiles :
       ~OutOfBounds(tile) /\ applyInstruction(canvas, tile).pixels # canvas.pixels
  /\ \E tile \in Tiles : tile.column = TilesAcross /\ tile.row < TilesDown

\* BorderPreset{color} as the decoder delivers it.
BorderPreset(color) == parseInstruction(INST_BORDER_PRESET, Data(<<color>>))[1]

\* C37: BorderPreset{color} sets exactly the cells of the top and bottom
\* 12-pixel bands and the left and right 6-pixel bands to color and leaves
\* the inner area, the palette, the transparent index and the offsets
\* unchanged.
BorderPresetPaintsBorderOnly ==
  \A color \in 0..15 :
    LET after == applyInstruction(canvas, BorderPreset(color))
    IN  /\ DOMAIN after.pixels = DOMAIN canvas.pixels
        /\ \A i \in DOMAIN canvas.pixels :
             LET x == i % CDG_WIDTH
                 y == i \div CDG_WIDTH
             IN  after.pixels[i] =
                   IF \/ y < 12 \/ y >= CDG_HEIGHT - 12
                      \/ x < 6 \/ x >= CDG_WIDTH - 6
                   THEN color ELSE canvas.pixels[i]
        /\ after.palette = canvas.palette
        /\ after.transparentColor = canvas.transparentColor
        /\ after.hOffset = canvas.hOffset
        /\ after.vOffset = canvas.vOffset

\* The border preset arrives on a renderer whose inner area holds cells of
\* several indices and whose offsets and transparent index are set.
BorderOverDrawingWitness ==
  /\ \E i, j \in DOMAIN canvas.pixels :
       /\ ~InBorder(i % CDG_WIDTH, i \div CDG_WIDTH)
       /\ ~InBorder(j % CDG_WIDTH, j \div CDG_WIDTH)
       /\ canvas.pixels[i] # canvas.pixels[j]
  /\ canvas.hOffset # 0
  /\ canvas.transparentColor # -1

\* Scroll{copy, color, hScroll, vScroll, hOffset = 2, vOffset = 3} as the
\* decoder delivers it.
Scroll(copy, color, hScroll, vScroll) ==
  parseInstruction(IF copy THEN INST_SCROLL_COPY ELSE INST_SCROLL_PRESET,
                   Data(<<color, hScroll * 16 + 2, vScroll * 16 + 3>>))[1]

\* Cell (x, y) of a grid.
Cell(pixels, x, y) == pixels[y * CDG_WIDTH + x]

Columns == 0..(CDG_WIDTH - 1)
Rows == 0..(CDG_HEIGHT - 1)

\* C38: a Scroll with hScroll = 1 moves the picture right by 6 pixels (cell
\* (x, y) with x >= 6 then holds what (x - 6, y) held), hScroll = 2 moves it
\* left by 6 pixels, vScroll = 1 moves it down by 12 pixels (cell (x, y)
\* with y >= 12 then holds what (x, y - 12) held) and vScroll = 2 moves it
\* up by 12 pixels.
ScrollMovesAsNamed ==
  \A copy \in BOOLEAN :
    LET right == applyInstruction(canvas, Scroll(copy, 0, 1, 0)).pixels
        left == applyInstruction(canvas, Scroll(copy, 0, 2, 0)).pixels
        down == applyInstruction(canvas, Scroll(copy, 0, 0, 1)).pixels
        up == applyInstruction(canvas, Scroll(copy, 0, 0, 2)).pixels
    IN  /\ \A x \in Columns, y \in Rows :
             x >= 6 => Cell(right, x, y) = Cell(canvas.pixels, x - 6, y)
        /\ \A x \in Columns, y \in Rows :
             x + 6 < CDG_WIDTH => Cell(left, x, y) = Cell(canvas.pixels, x + 6, y)
        /\ \A x \in Columns, y \in Rows :
             y >= 12 => Cell(down, x, y) = Cell(canvas.pixels, x, y - 12)
        /\ \A x \in Columns, y \in Rows :
             y + 12 < CDG_HEIGHT => Cell(up, x, y) = Cell(canvas.pixels, x, y + 12)

\* The scroll commands tried: each direction alone, two diagonals, and the
\* value 3, which the decoder delivers and which names no direction.
ScrollPairs ==
  {<<1, 0>>, <<2, 0>>, <<0, 1>>, <<0, 2>>, <<1, 2>>, <<2, 1>>, <<3, 3>>, <<3, 1>>}

\* The command of the opposite direction.
Opposite(scrollCmd) == IF scrollCmd = 1 THEN 2 ELSE IF scrollCmd = 2 THEN 1 ELSE scrollCmd

\* The number of cells that hold a colour index.
CellsOf(pixels, color) == Cardinality({i \in DOMAIN pixels : pixels[i] = color})

\* The source of cell (x, y) under a scroll command lies outside the grid.
SourceOutside(inst, x, y) ==
  LET srcX == x + (IF inst.hScroll = 1 THEN 6 ELSE IF inst.hScroll = 2 THEN -6 ELSE 0)
      srcY == y + (IF inst.vScroll = 1 THEN 12 ELSE IF inst.vScroll = 2 THEN -12 ELSE 0)
  IN  srcX < 0 \/ srcX >= CDG_WIDTH \/ srcY < 0 \/ srcY >= CDG_HEIGHT

\* C39: a copy-mode Scroll keeps the number of cells of each colour index,
\* and followed by the copy scroll of the opposite direction restores the
\* grid; a preset-mode Scroll sets exactly the cells whose source lies
\* outside the grid, one 6-pixel column band and/or one 12-pixel row band,
\* to its colour and copies every other cell from its source cell.
ScrollPermutesOrFills ==
  \A pair \in ScrollPairs :
    LET there == Scroll(TRUE, 5, pair[1], pair[2])
        back == Scroll(TRUE, 5, Opposite(pair[1]), Opposite(pair[2]))
        fill == Scroll(FALSE, 5, pair[1], pair[2])
        copied == applyInstruction(canvas, there)
        filled == applyInstruction(canvas, fill).pixels
        hBand == IF pair[1] \in {1, 2} THEN 6 ELSE 0
        vBand == IF pair[2] \in {1, 2} THEN 12 ELSE 0
    IN  /\ \A c \in 0..15 : CellsOf(copied.pixels, c) = CellsOf(canvas.pixels, c)
        /\ applyInstruction(copied, back).pixels = canvas.pixels
        /\ \A x \in Columns, y \in Rows :
             Cell(filled, x, y) =
               IF SourceOutside(fill, x, y) THEN 5
               ELSE Cell(canvas.pixels,
                         x + (IF pair[1] = 1 THEN 6 ELSE IF pair[1] = 2 THEN -6 ELSE 0),
                         y + (IF pair[2] = 1 THEN 12 ELSE IF pair[2] = 2 THEN -12 ELSE 0))
        /\ Cardinality({i \in DOMAIN canvas.pixels :
                          SourceOutside(fill, i % CDG_WIDTH, i \div CDG_WIDTH)})
             = hBand * CDG_HEIGHT + vBand * CDG_WIDTH - hBand * vBand

\* The grid to scroll holds a drawing that a horizontal copy scroll moves.
ScrollOverDrawingWitness ==
  /\ applied > 0
  /\ \E c \in 1..15 : CellsOf(canvas.pixels, c) \in 1..(CDG_WIDTH * CDG_HEIGHT - 1)
  /\ applyInstruction(canvas, Scroll(TRUE, 5, 1, 0)).pixels # canvas.pixels

\* C40: every Scroll stores its hOffset and vOffset, also when hScroll = 0
\* and vScroll = 0; then, and for every decoded hScroll and vScroll that
\* names no direction (0 or 3), the grid is unchanged; and no Scroll changes
\* the palette or the transparent index.
ScrollStoresOffsets ==
  \A copy \in BOOLEAN, pair \in ScrollPairs \cup {<<0, 0>>, <<0, 3>>, <<3, 0>>},
     hOffset \in {0, 5, 7}, vOffset \in {0, 11, 15} :
    LET inst == parseInstruction(IF copy THEN INST_SCROLL_COPY ELSE INST_SCROLL_PRESET,
                                 Data(<<5, pair[1] * 16 + hOffset,
                                        pair[2] * 16 + vOffset>>))[1]
        after == applyInstruction(canvas, inst)
    IN  /\ after.hOffset = hOffset
        /\ after.vOffset = vOffset
        /\ (pair[1] \in {0, 3} /\ pair[2] \in {0, 3}) => after.pixels = canvas.pixels
        /\ after.palette = canvas.palette
        /\ after.transparentColor = canvas.transparentColor

\* The scroll arrives on a renderer with other offsets stored, a drawing, a
\* loaded palette and a transparent index.
ScrollOverOffsetsWitness ==
  /\ canvas.hOffset = 2
  /\ canvas.vOffset = 3
  /\ \E i, j \in DOMAIN canvas.pixels : canvas.pixels[i] # canvas.pixels[j]
  /\ canvas.palette[0] # [r |-> 0, g |-> 0, b |-> 0] \/ canvas.transparentColor # -1

\* C32: in the events of a call, in emission order, every 'ended' directly
\* follows the 'stop' event of the same end of song, whose snapshot is
\* stopped; after it the state is playing = false, paused = false,
\* currentTime = 0 with no tick scheduled; and a call emits at most one
\* 'ended', whether a tick, play() or syncToAudioTime reached the end.
EndedFollowsStop ==
  /\ \A i \in DOMAIN events :
       events[i].type = "ended" =>
         /\ i > 1
         /\ events[i - 1].type = "stop"
         /\ ~events[i - 1].state.playing
         /\ ~events[i - 1].state.paused
         /\ events[i - 1].state.currentTime = 0
         /\ ~state.playing
         /\ ~state.paused
         /\ state.currentTime = 0
         /\ timers = 0
         /\ animationFrame = "null"
  /\ Cardinality({i \in DOMAIN events : events[i].type = "ended"}) <= 1

\* A tick that followed other calls has reached the end of the song: it
\* emitted the frame, then 'stop', then 'ended'.
TickEndedWitness ==
  /\ op.name = "tick"
  /\ Emitted("frame")
  /\ Emitted("ended")
  /\ state.duration > 0

\* play() was called on a loaded song that was not playing-and-unpaused.
PlayActs == op'.name = "play" /\ cdgData # Null /\ ~Running

\* C33: every 'play' event carries a snapshot with playing = true and
\* paused = false, and on return from a play() that was not a no-op the
\* player is playing and not paused with a tick scheduled, for every loaded
\* song, a song of duration 0 included.
PlayLeavesPlaying ==
  [][/\ op'.name = "play" =>
          \A i \in DOMAIN events' :
            events'[i].type = "play" =>
              events'[i].state.playing /\ ~events'[i].state.paused
     /\ PlayActs =>
          /\ state'.playing
          /\ ~state'.paused
          /\ timers' = 1
          /\ animationFrame' = "pending"]_vars

\* C34: whenever no call is running, 0 <= currentTime <= duration.
CurrentTimeInRange ==
  Idle => (state.currentTime >= 0 /\ state.currentTime <= state.duration)

\* What stop() leaves of a state.
Stopped(st) == [st EXCEPT !.playing = FALSE, !.paused = FALSE, !.currentTime = 0]

\* C35: a loadSong that fails on a player that holds a song keeps that
\* song's decoded instructions, duration and metadata and changes only what
\* stop() changes (playing = false, paused = false, currentTime = 0,
\* renderer and cursor reset, no tick scheduled, one 'stop' event); a play()
\* that follows plays that song.
FailedLoadKeepsSong ==
  [][(op'.name = "loadSong" /\ threw' # "none" /\ cdgData # Null) =>
       /\ cdgData' = cdgData
       /\ state' = Stopped(state)
       /\ renderer' = NewRenderer
       /\ packetIndex' = 0
       /\ timers' = 0
       /\ animationFrame' = "null"
       /\ Len(events') = 1
       /\ events'[1].type = "stop"
       /\ play(Self, now)'.cdgData = cdgData
       /\ play(Self, now)'.state.songId = state.songId]_vars

\* C31: once the host has reported an audio time since play(), a tick
\* applies no instruction with timeMs greater than the largest audio time
\* reported so far (or the last seek target), and emits 'ended' only when
\* an audio time >= duration has been reported.
TickFollowsAudioClock ==
  [][(op'.name = "tick" /\ Running /\ cdgData # Null /\ audioClock # Null) =>
       /\ (\A i \in DOMAIN events' : events'[i].type # "stop") =>
            \A k \in (packetIndex + 1)..packetIndex' :
              cdgData[1].packets[k].timeMs <= audioClock[1]
       /\ (\E i \in DOMAIN events' : events'[i].type = "ended") =>
            audioClock[1] >= state.duration]_vars

=============================================================================
